---------------------------- MODULE Spec2Model ----------------------------
(***************************************************************************)
(* A model of verdaccio-readme-fixer: the text pipeline of fixLinks        *)
(* (encodeTags / genFixedLink / decodeTags), genBaseHref and the           *)
(* processReadme / updatePackage sequence over a small file system.        *)
(*                                                                         *)
(* JavaScript strings are sequences of one-character strings.  A           *)
(* JavaScript object whose keys are strings is a sequence of entries       *)
(* [k |-> key, v |-> value] in insertion order (Object.entries order).     *)
(***************************************************************************)
EXTENDS Integers, Sequences, FiniteSets, TLC

(***************************************************************************)
(* Strings                                                                 *)
(***************************************************************************)

\* s occurs in str at the 1-based index i
IsAt(str, s, i) ==
  /\ i >= 1
  /\ i + Len(s) - 1 <= Len(str)
  /\ SubSeq(str, i, i + Len(s) - 1) = s

\* The suffix of str that starts at the 1-based index i
From(str, i) == SubSeq(str, i, Len(str))

\* The least element of a non-empty set of integers
Min(S) == CHOOSE x \in S : \A y \in S : x <= y

\* String.prototype.indexOf: the least index >= from where s occurs, 0 when none
IndexOf(str, s, from) ==
  LET found == { i \in from..(Len(str) - Len(s) + 1) : IsAt(str, s, i) }
  IN  IF found = {} THEN 0 ELSE Min(found)

\* s occurs somewhere in str
Includes(str, s) == IndexOf(str, s, 1) # 0

RECURSIVE CountOf(_, _, _)
\* The number of non-overlapping occurrences of the non-empty s in str from index from
CountOf(str, s, from) ==
  LET i == IndexOf(str, s, from)
  IN  IF i = 0 THEN 0 ELSE 1 + CountOf(str, s, i + Len(s))

RECURSIVE FlattenRange(_, _, _)
\* The concatenation of the strings ss[a], ..., ss[b]
FlattenRange(ss, a, b) ==
  IF a > b THEN << >>
  ELSE IF a = b THEN ss[a]
  ELSE LET m == (a + b) \div 2
       IN  FlattenRange(ss, a, m) \o FlattenRange(ss, m + 1, b)

\* The concatenation of a sequence of strings
Flatten(ss) == FlattenRange(ss, 1, Len(ss))

\* The greatest element of a non-empty set of integers
Max(S) == CHOOSE x \in S : \A y \in S : x >= y


\* The grave accent and the apostrophe, named: a grave accent cannot be
\* written in a string of this language
BACKTICK   == "BACKTICK"
APOSTROPHE == "APOSTROPHE"

RECURSIVE GetSubstitution(_, _, _, _)
\* ECMAScript GetSubstitution for a string pattern (no captures): in the
\* replacement text $$ is $, $& is the matched text, $ with a grave accent is
\* the text before the match, $ with an apostrophe is the text after it, and
\* any other $ stands for itself.
\* position is the 1-based index of the match in str.
GetSubstitution(matched, str, position, replacement) ==
  IF ~("$" \in { replacement[i] : i \in 1..Len(replacement) }) THEN replacement
  ELSE IF Head(replacement) # "$" \/ Len(replacement) = 1
    THEN <<Head(replacement)>>
           \o GetSubstitution(matched, str, position, Tail(replacement))
  ELSE LET c    == replacement[2]
           rest == SubSeq(replacement, 3, Len(replacement))
       IN  CASE c = "$" -> <<"$">> \o GetSubstitution(matched, str, position, rest)
             [] c = "&" -> matched \o GetSubstitution(matched, str, position, rest)
             [] c = BACKTICK -> SubSeq(str, 1, position - 1)
                             \o GetSubstitution(matched, str, position, rest)
             [] c = APOSTROPHE -> From(str, position + Len(matched))
                             \o GetSubstitution(matched, str, position, rest)
             [] OTHER   -> <<"$">>
                             \o GetSubstitution(matched, str, position, Tail(replacement))

\* String.prototype.replace with a string pattern: the first occurrence only
StringReplace(str, searchValue, replaceValue) ==
  LET p == IndexOf(str, searchValue, 1)
  IN  IF p = 0 THEN str
      ELSE SubSeq(str, 1, p - 1)
             \o GetSubstitution(searchValue, str, p, replaceValue)
             \o From(str, p + Len(searchValue))

RECURSIVE StringReplaceAllFrom(_, _, _, _)
StringReplaceAllFrom(str, searchValue, replaceValue, from) ==
  LET p == IndexOf(str, searchValue, from)
  IN  IF p = 0 THEN From(str, from)
      ELSE SubSeq(str, from, p - 1)
             \o GetSubstitution(searchValue, str, p, replaceValue)
             \o StringReplaceAllFrom(str, searchValue, replaceValue, p + Len(searchValue))

\* String.prototype.replaceAll with a non-empty string pattern: every
\* non-overlapping occurrence, found left to right in the original string
StringReplaceAll(str, searchValue, replaceValue) ==
  StringReplaceAllFrom(str, searchValue, replaceValue, 1)

Digits == <<"0", "1", "2", "3", "4", "5", "6", "7", "8", "9">>

RECURSIVE NumberToString(_)
\* String(i) for a natural number i
NumberToString(i) ==
  IF i < 10 THEN <<Digits[i + 1]>>
  ELSE NumberToString(i \div 10) \o <<Digits[(i % 10) + 1]>>

RECURSIVE padStart(_, _, _)
\* String.prototype.padStart with a one-character fill string
padStart(str, targetLength, fillChar) ==
  IF Len(str) >= targetLength THEN str
  ELSE padStart(<<fillChar>> \o str, targetLength, fillChar)

(***************************************************************************)
(* The two regular expressions                                             *)
(***************************************************************************)

\* Line terminators: what "." does not match and what the link classes exclude
LineTerminators == {"\n", "\r"}

\* Canonicalize of the ignoreCase flag, on the letters the patterns hold
Canonicalize(ch) ==
  CASE ch = "p" -> "P"
    [] ch = "r" -> "R"
    [] ch = "e" -> "E"
    [] ch = "m" -> "M"
    [] ch = "d" -> "D"
    [] OTHER    -> ch

\* s occurs in str at index i, letter case ignored
IsAtIgnoreCase(str, s, i) ==
  /\ i >= 1
  /\ i + Len(s) - 1 <= Len(str)
  /\ \A k \in 1..Len(s) : Canonicalize(str[i + k - 1]) = Canonicalize(s[k])

PRE_OPEN  == <<"<", "p", "r", "e", ">">>
PRE_CLOSE == <<"<", "/", "p", "r", "e", ">">>

\* ".*?</pre>" from index j: the index of the last character of the first
\* close tag reached over characters that are not line terminators, 0 when none
LazyDotToClose(str, j) ==
  LET stop == Min({ i \in j..(Len(str) + 1) :
                      \/ i > Len(str)
                      \/ IsAtIgnoreCase(str, PRE_CLOSE, i)
                      \/ str[i] \in LineTerminators })
  IN  IF IsAtIgnoreCase(str, PRE_CLOSE, stop) THEN stop + Len(PRE_CLOSE) - 1 ELSE 0

\* A variant of MatchPreformattedAt for the pattern "<pre>.*?", which leaves
\* out the close tag: the lazy dot takes nothing and the open tag alone matches
MatchPreformattedAt_OpenTagOnly(str, i) ==
  IF IsAtIgnoreCase(str, PRE_OPEN, i) THEN i + Len(PRE_OPEN) - 1 ELSE 0

\* new RegExp( '<pre>.*?</pre>', 'ig' ) tried at index i: the index of the
\* last character of the match, 0 when there is no match at i
MatchPreformattedAt(str, i) ==
  IF IsAtIgnoreCase(str, PRE_OPEN, i) THEN LazyDotToClose(str, i + Len(PRE_OPEN))
  ELSE 0

\* A greedy negated character class from index j: the index of the first
\* character that is in excluded, Len(str) + 1 when there is none
ClassRunEnd(str, j, excluded) ==
  Min({ i \in j..(Len(str) + 1) : i > Len(str) \/ str[i] \in excluded })

\* new RegExp( '\\[[^\\]\n\r]+\\]\\(#[^)\n\r]+\\)', 'g' ) tried at index i:
\* the index of the last character of the match, 0 when there is no match at i
MatchLinkAt(str, i) ==
  IF ~IsAt(str, <<"[">>, i) THEN 0
  ELSE LET j == ClassRunEnd(str, i + 1, {"]"} \cup LineTerminators)
       IN  IF j = i + 1 \/ ~IsAt(str, <<"]", "(", "#">>, j) THEN 0
           ELSE LET k == ClassRunEnd(str, j + 3, {")"} \cup LineTerminators)
                IN  IF k = j + 3 \/ ~IsAt(str, <<")">>, k) THEN 0 ELSE k

RE_PREFORMATTED == "<pre>.*?</pre>"
RE_LINKS        == "[label](#target)"

RegExpMatchAt(regex, str, i) ==
  IF regex = RE_PREFORMATTED THEN MatchPreformattedAt(str, i)
  ELSE MatchLinkAt(str, i)

RECURSIVE StringMatchFrom(_, _, _)
\* The matches from lastIndex from on: the leftmost start that matches, then on
\* from the end of that match
StringMatchFrom(str, regex, from) ==
  LET starts == { i \in from..Len(str) : RegExpMatchAt(regex, str, i) # 0 }
  IN  IF starts = {} THEN << >>
      ELSE LET b == Min(starts)
               e == RegExpMatchAt(regex, str, b)
           IN  <<SubSeq(str, b, e)>> \o StringMatchFrom(str, regex, e + 1)

\* String.prototype.match with a global regular expression: the matched
\* substrings, left to right, non-overlapping (the empty sequence for null)
StringMatch(str, regex) == StringMatchFrom(str, regex, 1)

(***************************************************************************)
(* encodeTags, decodeTags, genFixedLink                                    *)
(***************************************************************************)

TAG_MARK    == <<"!", "T", "A", "G", "!">>
PREFIX_PREF == <<"P", "R", "E", "F">>
PREFIX_LINK == <<"L", "I", "N", "K">>

\* A variant of genTag that leaves out the padding of the index
genTag_NoPad(tagPrefix, i) == TAG_MARK \o tagPrefix \o NumberToString(i)

\* '!TAG!' + tagPrefix + String(i).padStart( 2, '0' ), i counted from 0
genTag(tagPrefix, i) == TAG_MARK \o tagPrefix \o padStart(NumberToString(i), 2, "0")

RECURSIVE encodeTagsLoop(_, _, _, _, _)
\* The for loop of encodeTags from match number i (counted from 1)
encodeTagsLoop(matchResult, tagPrefix, i, tags, cookedContent) ==
  IF i > Len(matchResult) THEN [tags |-> tags, cookedContent |-> cookedContent]
  ELSE LET tag       == genTag(tagPrefix, i - 1)
           strSearch == matchResult[i]
       IN  encodeTagsLoop(matchResult, tagPrefix, i + 1,
                          Append(tags, [k |-> tag, v |-> strSearch]),
                          StringReplaceAll(cookedContent, strSearch, tag))

encodeTags(rawContent, regex, tagPrefix) ==
  encodeTagsLoop(StringMatch(rawContent, regex), tagPrefix, 1, << >>, rawContent)

encodeTagsPreformatted(rawContent) == encodeTags(rawContent, RE_PREFORMATTED, PREFIX_PREF)

encodeTagsLinks(rawContent) == encodeTags(rawContent, RE_LINKS, PREFIX_LINK)

RECURSIVE decodeTagsLoop(_, _, _)
decodeTagsLoop(decodedContent, tags, i) ==
  IF i > Len(tags) THEN decodedContent
  ELSE decodeTagsLoop(StringReplaceAll(decodedContent, tags[i].k, tags[i].v), tags, i + 1)

decodeTags(encodedContent, tags) == decodeTagsLoop(encodedContent, tags, 1)

\* rawLink.replace( '(#', '(' + baseHref + '#' ), the replacement a template literal
genFixedLink(rawLink, baseHref) ==
  StringReplace(rawLink, <<"(", "#">>, <<"(">> \o baseHref \o <<"#">>)

\* The forEach of fixLinks: every value of tagsLinks replaced by its fixed link
fixTagsLinks(tagsLinks, baseHref) ==
  [i \in 1..Len(tagsLinks) |->
     [k |-> tagsLinks[i].k, v |-> genFixedLink(tagsLinks[i].v, baseHref)]]

\* fixLinks of src/unnamed/part_000 as one function
fixLinks(rawReadmeText, baseHref) ==
  LET pre   == encodeTagsPreformatted(rawReadmeText)
      links == encodeTagsLinks(pre.cookedContent)
      fixed == fixTagsLinks(links.tags, baseHref)
  IN  decodeTags(decodeTags(links.cookedContent, fixed), pre.tags)

(***************************************************************************)
(* JavaScript values: strings, objects with string keys, undefined.  A     *)
(* value carries its type t, its characters s when it is a string and its  *)
(* entries o when it is an object.                                         *)
(***************************************************************************)

JSUndefined      == [t |-> "undefined", s |-> << >>, o |-> << >>]
JSNull           == [t |-> "null", s |-> << >>, o |-> << >>]
JSString(str)    == [t |-> "string", s |-> str, o |-> << >>]
JSObject(fields) == [t |-> "object", s |-> << >>, o |-> fields]

\* The keys of an object's entries
Keys(fields) == { fields[i].k : i \in 1..Len(fields) }

\* value.key: the property of an object, undefined when the value is not an
\* object or has no such property
GetProp(value, key) ==
  IF value.t = "object" /\ key \in Keys(value.o)
  THEN (CHOOSE e \in { value.o[i] : i \in 1..Len(value.o) } : e.k = key).v
  ELSE JSUndefined

\* object.key = value: an existing property keeps its place, a new one is
\* added after the others
SetProp(fields, key, value) ==
  IF key \in Keys(fields)
  THEN [i \in 1..Len(fields) |->
          IF fields[i].k = key THEN [k |-> key, v |-> value] ELSE fields[i]]
  ELSE Append(fields, [k |-> key, v |-> value])

\* A variant of the truth test that takes only undefined as false
Truthy_Defined(value) == value.t # "undefined"

\* ToBoolean
Truthy(value) ==
  ~(value.t \in {"undefined", "null"} \/ (value.t = "string" /\ value.s = << >>))

\* ToString, as a template literal applies it
JSToString(value) ==
  CASE value.t = "string"    -> value.s
    [] value.t = "undefined" -> <<"u", "n", "d", "e", "f", "i", "n", "e", "d">>
    [] value.t = "null"      -> <<"n", "u", "l", "l">>
    [] OTHER -> <<"[", "o", "b", "j", "e", "c", "t", " ", "O", "b", "j", "e", "c", "t", "]">>

(***************************************************************************)
(* JSON.stringify( value, null, gap ) and JSON.parse, for strings, objects *)
(* and null                                                                *)
(***************************************************************************)

QUOTE     == "\""
BACKSLASH == "\\"

\* The escape of one character inside a JSON string
QuoteJSONChar(ch) ==
  CASE ch = QUOTE     -> <<BACKSLASH, QUOTE>>
    [] ch = BACKSLASH -> <<BACKSLASH, BACKSLASH>>
    [] ch = "\n"      -> <<BACKSLASH, "n">>
    [] ch = "\r"      -> <<BACKSLASH, "r">>
    [] ch = "\t"      -> <<BACKSLASH, "t">>
    [] OTHER          -> <<ch>>

QuoteJSONString(str) ==
  <<QUOTE>> \o Flatten([i \in 1..Len(str) |-> QuoteJSONChar(str[i])]) \o <<QUOTE>>

Spaces(n) == [i \in 1..n |-> " "]

RECURSIVE SerializeJSONProperty(_, _, _)
\* The text of a value at the indentation indent (a number of spaces), the gap
\* being gap spaces
SerializeJSONProperty(value, gap, indent) ==
  IF value.t = "string" THEN QuoteJSONString(value.s)
  ELSE IF value.t = "null" THEN <<"n", "u", "l", "l">>
  ELSE LET inner   == indent + gap
           member(i) == QuoteJSONString(value.o[i].k) \o <<":">>
                          \o (IF gap > 0 THEN <<" ">> ELSE << >>)
                          \o SerializeJSONProperty(value.o[i].v, gap, inner)
           sep     == IF gap > 0 THEN <<",", "\n">> \o Spaces(inner) ELSE <<",">>
           partial == [i \in 1..Len(value.o) |->
                         (IF i > 1 THEN sep ELSE << >>) \o member(i)]
       IN  IF value.o = << >> THEN <<"{", "}">>
           ELSE IF gap = 0 THEN <<"{">> \o Flatten(partial) \o <<"}">>
           ELSE <<"{", "\n">> \o Spaces(inner) \o Flatten(partial)
                  \o <<"\n">> \o Spaces(indent) \o <<"}">>

JSONstringify(value, gap) == SerializeJSONProperty(value, gap, 0)

JSONWhiteSpace == {" ", "\n", "\r", "\t"}

RECURSIVE SkipWhiteSpace(_, _)
\* The first index >= i that holds no white space, Len(text) + 1 when none
SkipWhiteSpace(text, i) ==
  IF i > Len(text) \/ text[i] \notin JSONWhiteSpace THEN i
  ELSE SkipWhiteSpace(text, i + 1)

RECURSIVE BackslashesBefore(_, _, _)
\* The number of backslashes that stand immediately before index i, counted
\* back no further than index low
BackslashesBefore(text, i, low) ==
  IF i - 1 < low \/ text[i - 1] # BACKSLASH THEN 0
  ELSE 1 + BackslashesBefore(text, i - 1, low)

RECURSIVE JSONStringCloseFrom(_, _, _)
\* The index of the first quote at or after index from that no backslash of
\* the string opened at index i escapes, 0 when there is none
JSONStringCloseFrom(text, i, from) ==
  LET j == IndexOf(text, <<QUOTE>>, from)
  IN  IF j = 0 THEN 0
      ELSE IF BackslashesBefore(text, j, i + 1) % 2 = 0 THEN j
      ELSE JSONStringCloseFrom(text, i, j + 1)

\* The index of the quote that closes the JSON string opened at index i, 0
\* when it is not closed
JSONStringClose(text, i) == JSONStringCloseFrom(text, i, i + 1)

\* The character an escape stands for, "" when the escape is not one of JSON's
\* two-character escapes
UnescapeJSONChar(ch) ==
  CASE ch = "n" -> <<"\n">>
    [] ch = "r" -> <<"\r">>
    [] ch = "t" -> <<"\t">>
    [] ch \in {QUOTE, BACKSLASH, "/"} -> <<ch>>
    [] OTHER -> << >>

\* The body of a JSON string (the text between its quotes) is well formed:
\* no raw control character, no unknown escape
JSONStringBodyOk(body) ==
  \A n \in 1..Len(body) :
    IF BackslashesBefore(body, n, 1) % 2 = 1 THEN UnescapeJSONChar(body[n]) # << >>
    ELSE body[n] \notin {"\n", "\r", "\t"}

\* The string a well-formed body stands for
UnescapeJSONString(body) ==
  Flatten([n \in 1..Len(body) |->
             IF BackslashesBefore(body, n, 1) % 2 = 1 THEN UnescapeJSONChar(body[n])
             ELSE IF body[n] = BACKSLASH THEN << >>
             ELSE <<body[n]>>])

JSONFail == [ok |-> FALSE, value |-> JSUndefined, next |-> 0]

\* The JSON string opened at index i and closed at index c
ParseJSONStringTo(text, i, c) ==
  IF c = 0 \/ ~JSONStringBodyOk(SubSeq(text, i + 1, c - 1)) THEN JSONFail
  ELSE [ok |-> TRUE,
        value |-> JSString(UnescapeJSONString(SubSeq(text, i + 1, c - 1))),
        next |-> c + 1]

\* A JSON string at index i (text[i] is its opening quote)
ParseJSONString(text, i) == ParseJSONStringTo(text, i, JSONStringClose(text, i))

RECURSIVE ParseJSONValue(_, _)
RECURSIVE ParseJSONMembers(_, _, _)

\* The rest of an object after the member key: val has been parsed: a closing
\* brace ends the object, a comma brings the next member
ParseJSONMemberEnd(text, key, val, fields) ==
  IF ~val.ok \/ SkipWhiteSpace(text, val.next) > Len(text) THEN JSONFail
  ELSE LET j   == SkipWhiteSpace(text, val.next)
           now == SetProp(fields, key.value.s, val.value)
       IN  IF text[j] = "}"
             THEN [ok |-> TRUE, value |-> JSObject(now), next |-> j + 1]
           ELSE IF text[j] = ","
             THEN ParseJSONMembers(text, SkipWhiteSpace(text, j + 1), now)
           ELSE JSONFail

\* The rest of an object after the key of a member has been parsed: a colon
\* and the value of the member follow
ParseJSONMemberValue(text, key, fields) ==
  IF ~key.ok \/ SkipWhiteSpace(text, key.next) > Len(text) THEN JSONFail
  ELSE IF text[SkipWhiteSpace(text, key.next)] # ":" THEN JSONFail
  ELSE ParseJSONMemberEnd(text, key,
                          ParseJSONValue(text, SkipWhiteSpace(text, key.next) + 1),
                          fields)

\* The members of an object from index i (white space skipped, text[i] the
\* quote of a key), added to fields; next is the index after the closing brace
ParseJSONMembers(text, i, fields) ==
  IF i > Len(text) \/ text[i] # QUOTE THEN JSONFail
  ELSE ParseJSONMemberValue(text, ParseJSONString(text, i), fields)

\* A JSON value from index i on: a string, null, or an object of such values
ParseJSONValue(text, i) ==
  LET b == SkipWhiteSpace(text, i)
  IN  IF b > Len(text) THEN JSONFail
      ELSE IF text[b] = QUOTE THEN ParseJSONString(text, b)
      ELSE IF IsAt(text, <<"n", "u", "l", "l">>, b)
        THEN [ok |-> TRUE, value |-> JSNull, next |-> b + 4]
      ELSE IF text[b] = "{"
        THEN LET m == SkipWhiteSpace(text, b + 1)
             IN  IF m <= Len(text) /\ text[m] = "}"
                 THEN [ok |-> TRUE, value |-> JSObject(<< >>), next |-> m + 1]
                 ELSE ParseJSONMembers(text, m, << >>)
      ELSE JSONFail

\* The value parsed when nothing but white space follows it
ParseJSONEnd(text, r) ==
  IF r.ok /\ SkipWhiteSpace(text, r.next) > Len(text) THEN r ELSE JSONFail

\* JSON.parse: ok is FALSE where it throws a SyntaxError
JSONparse(text) == ParseJSONEnd(text, ParseJSONValue(text, 1))

(***************************************************************************)
(* The constants of readme-fixer.js and the process it runs in             *)
(***************************************************************************)

DEFAULT_README_PATHNAME == <<".", "/", "R", "E", "A", "D", "M", "E", ".", "m", "d">>
DEFAULT_REGISTRY ==
  <<"h", "t", "t", "p", ":", "/", "/", "l", "o", "c", "a", "l", "h", "o", "s", "t",
    ":", "4", "8", "7", "3">>
REL_WEB_PATH     == <<"/", "-", "/", "w", "e", "b", "/", "d", "e", "t", "a", "i", "l", "/">>
PACKAGE_FILENAME == <<"p", "a", "c", "k", "a", "g", "e", ".", "j", "s", "o", "n">>

\* process.platform and process.pid: the operating system the process runs on
\* and the identifier of the process
VARIABLES platform, pid

\* process.cwd() of the run
cwd == <<"/", "w">>

BACKUP_DIR ==
  IF platform = "win32" THEN <<"C", ":", BACKSLASH, "T", "e", "m", "p">>
  ELSE <<"/", "t", "m", "p">>

\* The property names the code reads and writes
KEY_NAME          == <<"n", "a", "m", "e">>
KEY_PUBLISHCONFIG == <<"p", "u", "b", "l", "i", "s", "h", "C", "o", "n", "f", "i", "g">>
KEY_REGISTRY      == <<"r", "e", "g", "i", "s", "t", "r", "y">>
KEY_README        == <<"r", "e", "a", "d", "m", "e">>

(***************************************************************************)
(* path.dirname, path.resolve and path.join of a POSIX platform            *)
(***************************************************************************)

IsAbsolute(pathname) == pathname # << >> /\ pathname[1] = "/"

RECURSIVE SplitPathFrom(_, _)
\* The segments of pathname[i..] that its slashes separate
SplitPathFrom(pathname, i) ==
  LET j == IndexOf(pathname, <<"/">>, i)
  IN  IF j = 0 THEN <<SubSeq(pathname, i, Len(pathname))>>
      ELSE <<SubSeq(pathname, i, j - 1)>> \o SplitPathFrom(pathname, j + 1)

RECURSIVE NormalizeSegments(_, _, _)
\* The segments of an absolute path with "", "." and ".." resolved
NormalizeSegments(segs, i, out) ==
  IF i > Len(segs) THEN out
  ELSE IF segs[i] \in {<< >>, <<".">>} THEN NormalizeSegments(segs, i + 1, out)
  ELSE IF segs[i] = <<".", ".">>
    THEN NormalizeSegments(segs, i + 1,
                           IF out = << >> THEN out ELSE SubSeq(out, 1, Len(out) - 1))
  ELSE NormalizeSegments(segs, i + 1, Append(out, segs[i]))

\* An absolute pathname, normalized
NormalizeAbsolute(pathname) ==
  LET segs == NormalizeSegments(SplitPathFrom(pathname, 1), 1, << >>)
  IN  IF segs = << >> THEN <<"/">>
      ELSE Flatten([i \in 1..Len(segs) |-> <<"/">> \o segs[i]])

\* path.resolve( from, to )
pathResolve(from, to) ==
  IF IsAbsolute(to) THEN NormalizeAbsolute(to)
  ELSE IF IsAbsolute(from) THEN NormalizeAbsolute(from \o <<"/">> \o to)
  ELSE NormalizeAbsolute(cwd \o <<"/">> \o from \o <<"/">> \o to)

\* path.dirname( pathname )
pathDirname(pathname) ==
  LET notSlash == { i \in 2..Len(pathname) : pathname[i] # "/" }
      slashes  == IF notSlash = {} THEN {}
                  ELSE { i \in 2..(Max(notSlash) - 1) : pathname[i] = "/" }
      hasRoot  == IsAbsolute(pathname)
  IN  IF pathname = << >> THEN <<".">>
      ELSE IF slashes = {} THEN (IF hasRoot THEN <<"/">> ELSE <<".">>)
      ELSE IF hasRoot /\ Max(slashes) = 2 THEN <<"/", "/">>
      ELSE SubSeq(pathname, 1, Max(slashes) - 1)

\* path.join( dir, filename ) for a directory BACKUP_DIR and a file name that
\* holds no separator
pathJoin(dir, filename) ==
  IF platform = "win32" THEN dir \o <<BACKSLASH>> \o filename
  ELSE NormalizeAbsolute(dir \o <<"/">> \o filename)

\* The absolute pathname the file system resolves a pathname to
AbsolutePath(pathname) == pathResolve(cwd, pathname)

(***************************************************************************)
(* readme-fixer.js: the functions around fixLinks                          *)
(***************************************************************************)

\* pathname.replace( /[\\/.:]/g, '-' )
ReplaceSeparators(pathname) ==
  [i \in 1..Len(pathname) |->
     IF pathname[i] \in {BACKSLASH, "/", ".", ":"} THEN "-" ELSE pathname[i]]

\* A variant of genBackupPathname that names the backup as BACKUP_PATHNAME of
\* src/readme-fixer.js does: always under /tmp, "tmp" with no dash, only
\* slashes and dots replaced, no dot before the process identifier
genBackupPathname_Legacy(pathname) ==
  LET backupFilename == <<"t", "m", "p">>
                          \o [i \in 1..Len(pathname) |->
                                IF pathname[i] \in {"/", "."} THEN "-" ELSE pathname[i]]
                          \o NumberToString(pid)
  IN  NormalizeAbsolute(<<"/", "t", "m", "p", "/">> \o backupFilename)

genBackupPathname(pathname) ==
  LET backupFilename == <<"t", "m", "p", "-">> \o ReplaceSeparators(pathname)
                          \o <<".">> \o NumberToString(pid)
  IN  pathJoin(BACKUP_DIR, backupFilename)

genPackagePathname(currentReadmePathname) ==
  pathResolve(pathDirname(currentReadmePathname), PACKAGE_FILENAME)

\* A variant of writeFileJSON that leaves out the indentation argument
writeFileJSON_Compact(rawContent) == JSONstringify(rawContent, 0)

\* JSON.stringify( rawContent, null, 2 ): the text writeFileJSON writes
writeFileJSON(rawContent) == JSONstringify(rawContent, 2)

\* A variant of genBaseHref that leaves out the "?" that ends the base address
genBaseHref_NoQuery(packageContent) ==
  LET configured  == GetProp(GetProp(packageContent, KEY_PUBLISHCONFIG), KEY_REGISTRY)
      registry    == IF Truthy(configured) THEN configured ELSE JSString(DEFAULT_REGISTRY)
      packageName == GetProp(packageContent, KEY_NAME)
      href        == JSToString(registry) \o REL_WEB_PATH \o JSToString(packageName)
  IN  [threw        |-> packageContent.t \in {"null", "undefined"},
       baseHref     |-> href,
       baseHrefText |-> <<"<", "b", "a", "s", "e", " ", "h", "r", "e", "f", "=", QUOTE>>
                          \o href \o <<QUOTE, ">">>]

\* A variant of genBaseHref that takes the default registry with "??" in place
\* of "||": only for a registry that is undefined
genBaseHref_Nullish(packageContent) ==
  LET configured  == GetProp(GetProp(packageContent, KEY_PUBLISHCONFIG), KEY_REGISTRY)
      registry    == IF configured.t # "undefined" THEN configured
                     ELSE JSString(DEFAULT_REGISTRY)
      packageName == GetProp(packageContent, KEY_NAME)
      href        == JSToString(registry) \o REL_WEB_PATH \o JSToString(packageName)
                       \o <<"?">>
  IN  [threw        |-> packageContent.t \in {"null", "undefined"},
       baseHref     |-> href,
       baseHrefText |-> <<"<", "b", "a", "s", "e", " ", "h", "r", "e", "f", "=", QUOTE>>
                          \o href \o <<QUOTE, ">">>]

\* genBaseHref( packageContent ): packageContent?.publishConfig?.registry is
\* undefined for a packageContent that is null; packageContent.name throws a
\* TypeError for it (threw)
genBaseHref(packageContent) ==
  LET configured  == GetProp(GetProp(packageContent, KEY_PUBLISHCONFIG), KEY_REGISTRY)
      registry    == IF Truthy(configured) THEN configured ELSE JSString(DEFAULT_REGISTRY)
      packageName == GetProp(packageContent, KEY_NAME)
      href        == JSToString(registry) \o REL_WEB_PATH \o JSToString(packageName)
                       \o <<"?">>
  IN  [threw        |-> packageContent.t \in {"null", "undefined"},
       baseHref     |-> href,
       baseHrefText |-> <<"<", "b", "a", "s", "e", " ", "h", "r", "e", "f", "=", QUOTE>>
                          \o href \o <<QUOTE, ">">>]

(***************************************************************************)
(* State                                                                   *)
(***************************************************************************)
VARIABLES
  pc,                         \* the statement the run is about to execute
  rawReadmeText,              \* fixLinks: the text given
  baseHref,                   \* fixLinks: the base address given
  tagsPreformatted,           \* fixLinks: the tags of the preformatted pass
  cookedContentPreformatted,  \* fixLinks: the text after the preformatted pass
  tagsLinks,                  \* fixLinks: the tags of the link pass
  cookedContentLinks,         \* fixLinks: the text after the link pass
  cookedContent,              \* fixLinks: the text being decoded, then returned
  baseHrefText,               \* genBaseHref: the base tag returned with baseHref
  readmePathname,             \* processReadme: the argument it is called with
  files,                      \* the file system: absolute pathname -> content
  requireCache,               \* require.cache: absolute pathname -> loaded record
  packagePathname,            \* processReadme: the pathname of the manifest
  readmeText,                 \* processReadme: the text fixReadmeText returned
  packageLoaded,              \* history: the record updatePackage loaded, as it
                              \* was before updatePackage assigned to it
  backupPathname,             \* deleteFile: the pathname of the backup
  result,                     \* the value the promise is resolved with
  error,                      \* the error the promise is rejected with
  argv,                       \* process.argv of a command-line run
  filesAtStart,               \* history: the file system when the run started
  fsLog,                      \* history: the calls made to the file system, in order
  inv,                        \* the invocations of processReadme that overlap
  console                     \* the lines written with console.log

fixVars == <<rawReadmeText, baseHref, tagsPreformatted, cookedContentPreformatted,
             tagsLinks, cookedContentLinks, cookedContent>>

procVars == <<baseHrefText, readmePathname, files, requireCache, packagePathname, readmeText,
              packageLoaded, backupPathname, result, error>>

envVars == <<platform, pid, argv, filesAtStart>>

vars == <<pc, fixVars, procVars, envVars, fsLog, inv, console>>

\* A call to the file system: the function called, the absolute pathname it
\* is called with, the invocation of processReadme that makes the call
FsCall(op, pathname, by) == [op |-> op, path |-> pathname, by |-> by]

NoError  == [name |-> "none", message |-> << >>]
NoResult == [settled |-> FALSE, packagePathname |-> << >>, backupPackagePathname |-> << >>]

(***************************************************************************)
(* Inputs of fixLinks                                                      *)
(***************************************************************************)

\* The most segments a text is made of
MaxSegs == 3

\* The most copies of one link and block in a text made of copies of them
MaxRepeat == 12

LINK_AB == <<"[", "a", "]", "(", "#", "b", ")">>

Segments ==
  { <<"x">>,
    <<"\n">>,
    LINK_AB,
    <<"[", "(", "#", "]", "(", "#", "b", ")">>,
    <<"[", "a", "]", "(", "#", "$", APOSTROPHE, ")">>,
    <<"<", "p", "R", "e", ">">>,
    <<"<", "/", "p", "r", "e", ">">>,
    <<"<", "p", "r", "e", ">", "\n", "[", "c", "]", "(", "#", "d", ")", "<", "/", "p", "r", "e", ">">>,
    <<"$", "&">>,
    TAG_MARK \o PREFIX_LINK \o <<"0", "0">> }

SegTexts == { Flatten(ss) : ss \in UNION { [1..n -> Segments] : n \in 0..MaxSegs } }

RECURSIVE Repeat(_, _)
Repeat(str, n) == IF n = 0 THEN << >> ELSE str \o Repeat(str, n - 1)

\* A link followed by a preformatted block on one line
LINK_AND_BLOCK ==
  LINK_AB \o <<"<", "P", "R", "E", ">", "x", "<", "/", "p", "r", "e", ">">>

RepeatTexts == { Repeat(LINK_AND_BLOCK, n) : n \in 0..MaxRepeat }

\* Texts with a preformatted block in the label of a link, with a close
\* parenthesis in the target of a link, with a marker of the second link in
\* front of the same link twice
ExtraTexts ==
  { <<"[", "<", "p", "r", "e", ">", "x", "<", "/", "p", "r", "e", ">", "]", "(", "#", "b", ")">>,
    <<"[", "a", "]", "(", "#", "b", "(", "c", ")", "d", ")">>,
    TAG_MARK \o PREFIX_LINK \o <<"0", "1", " ">> \o LINK_AB \o <<" ">> \o LINK_AB }

Texts == SegTexts \cup RepeatTexts \cup ExtraTexts

BaseHrefs == { <<"B", "?">>, <<"h", ":", "/", "n", "?">> }

(***************************************************************************)
(* fixLinks, statement by statement (src/unnamed/part_000)                 *)
(***************************************************************************)

InitFixLinks ==
  /\ pc = "encodeTagsPreformatted"
  /\ rawReadmeText \in Texts
  /\ baseHref \in BaseHrefs
  /\ tagsPreformatted = << >>
  /\ cookedContentPreformatted = << >>
  /\ tagsLinks = << >>
  /\ cookedContentLinks = << >>
  /\ cookedContent = << >>
  /\ baseHrefText = << >>
  /\ readmePathname = JSUndefined
  /\ files = << >>
  /\ requireCache = << >>
  /\ packagePathname = << >>
  /\ readmeText = << >>
  /\ packageLoaded = JSUndefined
  /\ backupPathname = << >>
  /\ result = NoResult
  /\ error = NoError
  /\ platform = "linux"
  /\ pid = 4321
  /\ argv = << >>
  /\ filesAtStart = files
  /\ fsLog = << >>
  /\ inv = << >>
  /\ console = << >>

EncodeTagsPreformatted ==
  /\ pc = "encodeTagsPreformatted"
  /\ LET r == encodeTagsPreformatted(rawReadmeText)
     IN  /\ tagsPreformatted' = r.tags
         /\ cookedContentPreformatted' = r.cookedContent
  /\ pc' = "encodeTagsLinks"
  /\ UNCHANGED <<procVars, envVars, fsLog, inv, console>>
  /\ UNCHANGED <<rawReadmeText, baseHref, tagsLinks, cookedContentLinks, cookedContent>>

EncodeTagsLinks ==
  /\ pc = "encodeTagsLinks"
  /\ LET r == encodeTagsLinks(cookedContentPreformatted)
     IN  /\ tagsLinks' = r.tags
         /\ cookedContentLinks' = r.cookedContent
         /\ cookedContent' = r.cookedContent
  /\ pc' = "genFixedLink"
  /\ UNCHANGED <<procVars, envVars, fsLog, inv, console>>
  /\ UNCHANGED <<rawReadmeText, baseHref, tagsPreformatted, cookedContentPreformatted>>

GenFixedLinks ==
  /\ pc = "genFixedLink"
  /\ tagsLinks' = fixTagsLinks(tagsLinks, baseHref)
  /\ pc' = "decodeTagsLinks"
  /\ UNCHANGED <<procVars, envVars, fsLog, inv, console>>
  /\ UNCHANGED <<rawReadmeText, baseHref, tagsPreformatted, cookedContentPreformatted,
                 cookedContentLinks, cookedContent>>

DecodeTagsLinks ==
  /\ pc = "decodeTagsLinks"
  /\ cookedContent' = decodeTags(cookedContent, tagsLinks)
  /\ pc' = "decodeTagsPreformatted"
  /\ UNCHANGED <<procVars, envVars, fsLog, inv, console>>
  /\ UNCHANGED <<rawReadmeText, baseHref, tagsPreformatted, cookedContentPreformatted,
                 tagsLinks, cookedContentLinks>>

DecodeTagsPreformatted ==
  /\ pc = "decodeTagsPreformatted"
  /\ cookedContent' = decodeTags(cookedContent, tagsPreformatted)
  /\ pc' = "fixed"
  /\ UNCHANGED <<procVars, envVars, fsLog, inv, console>>
  /\ UNCHANGED <<rawReadmeText, baseHref, tagsPreformatted, cookedContentPreformatted,
                 tagsLinks, cookedContentLinks>>

NextFixLinks ==
  \/ EncodeTagsPreformatted
  \/ EncodeTagsLinks
  \/ GenFixedLinks
  \/ DecodeTagsLinks
  \/ DecodeTagsPreformatted

SpecFixLinks == InitFixLinks /\ [][NextFixLinks]_vars

(***************************************************************************)
(* processReadme, statement by statement (src/unnamed/part_000)            *)
(***************************************************************************)

\* The file system holds a file at the pathname
FileExists(pathname) == AbsolutePath(pathname) \in DOMAIN files

\* The file system with content written to the file at the pathname
FilesWith(pathname, content) ==
  [q \in DOMAIN files \cup {AbsolutePath(pathname)} |->
     IF q = AbsolutePath(pathname) THEN content ELSE files[q]]

\* The file system with the file at the pathname removed
FilesWithout(pathname) ==
  [q \in DOMAIN files \ {AbsolutePath(pathname)} |-> files[q]]

\* require( pathname ) of a .json file: the cached record when there is one,
\* else the record parsed from the file, which is then cached; ok is FALSE
\* where require throws; calls are the calls it makes to the file system
RequireParsed(pathname, parsed) ==
  IF parsed.ok
  THEN [ok |-> TRUE, name |-> "none",
        cache |-> [q \in DOMAIN requireCache \cup {pathname} |->
                     IF q = pathname THEN parsed.value ELSE requireCache[q]],
        calls |-> <<FsCall("require", pathname, 1)>>]
  ELSE [ok |-> FALSE, name |-> "SyntaxError", cache |-> requireCache,
        calls |-> <<FsCall("require", pathname, 1)>>]

Require(pathname) ==
  IF pathname \in DOMAIN requireCache
    THEN [ok |-> TRUE, name |-> "none", cache |-> requireCache, calls |-> << >>]
  ELSE IF ~FileExists(pathname)
    THEN [ok |-> FALSE, name |-> "MODULE_NOT_FOUND", cache |-> requireCache,
          calls |-> <<FsCall("require", pathname, 1)>>]
  ELSE RequireParsed(pathname, JSONparse(files[pathname]))

\* Whether the file system refuses a call of copyFileSync, unlink or
\* writeFileSync (no permission on the directory): a refused call throws an
\* error named EACCES and leaves the files as they are
Refusals == BOOLEAN

\* The run ends with its promise rejected
Reject(name, message) ==
  /\ error' = [name |-> name, message |-> message]
  /\ pc' = "rejected"

\* const rawReadmeText = readFile( readmePathname ), the argument defaulted
ReadFile ==
  /\ pc = "readFile"
  /\ LET pathname == IF readmePathname.t = "undefined" THEN DEFAULT_README_PATHNAME
                     ELSE readmePathname.s
     IN  IF pathname = << >>
           THEN /\ Reject("Error", <<"N", "o", " ", "p", "a", "t", "h", "n", "a", "m", "e",
                                     " ", "s", "p", "e", "c", "i", "f", "i", "e", "d">>)
                /\ UNCHANGED <<rawReadmeText, readmePathname, fsLog>>
         ELSE IF FileExists(pathname)
           THEN /\ rawReadmeText' = files[AbsolutePath(pathname)]
                /\ readmePathname' = JSString(pathname)
                /\ fsLog' = fsLog \o <<FsCall("existsSync", AbsolutePath(pathname), 1),
                                        FsCall("readFileSync", AbsolutePath(pathname), 1)>>
                /\ pc' = "genPackagePathname"
                /\ UNCHANGED error
         ELSE /\ Reject("Error", <<"F", "i", "l", "e", " ", "n", "o", "t", " ", "f", "o",
                                   "u", "n", "d", ":", " ">> \o pathname)
              /\ fsLog' = Append(fsLog, FsCall("existsSync", AbsolutePath(pathname), 1))
              /\ UNCHANGED <<rawReadmeText, readmePathname>>
  /\ UNCHANGED <<baseHref, tagsPreformatted, cookedContentPreformatted, tagsLinks,
                 cookedContentLinks, cookedContent>>
  /\ UNCHANGED <<baseHrefText, files, requireCache, packagePathname, readmeText,
                 packageLoaded, backupPathname, result>>
  /\ UNCHANGED <<envVars, inv, console>>

\* const packagePathname = genPackagePathname( readmePathname )
GenPackagePathname ==
  /\ pc = "genPackagePathname"
  /\ packagePathname' = genPackagePathname(readmePathname.s)
  /\ pc' = "loadPackage"
  /\ UNCHANGED fixVars
  /\ UNCHANGED <<baseHrefText, readmePathname, files, requireCache, readmeText, packageLoaded,
                 backupPathname, result, error>>
  /\ UNCHANGED <<envVars, fsLog, inv, console>>

\* A variant of loadPackage that makes the backup copy of the manifest before
\* it loads the manifest
LoadPackage_BackupFirst ==
  /\ pc = "loadPackage"
  /\ files' = IF FileExists(packagePathname)
              THEN FilesWith(genBackupPathname(packagePathname), files[packagePathname])
              ELSE files
  /\ \E r \in {Require(packagePathname)} :
       /\ requireCache' = r.cache
       /\ fsLog' = fsLog \o r.calls
       /\ IF r.ok THEN pc' = "genBaseHref" /\ UNCHANGED error
          ELSE Reject(r.name, packagePathname)
  /\ UNCHANGED fixVars
  /\ UNCHANGED <<baseHrefText, readmePathname, packagePathname, readmeText, packageLoaded,
                 backupPathname, result>>
  /\ UNCHANGED <<envVars, inv, console>>

\* const packageContent = loadPackage( packagePathname )
LoadPackage ==
  /\ pc = "loadPackage"
  /\ \E r \in {Require(packagePathname)} :
       /\ requireCache' = r.cache
       /\ fsLog' = fsLog \o r.calls
       /\ IF r.ok THEN pc' = "genBaseHref" /\ UNCHANGED error
          ELSE Reject(r.name, packagePathname)
  /\ UNCHANGED fixVars
  /\ UNCHANGED <<baseHrefText, readmePathname, files, packagePathname, readmeText, packageLoaded,
                 backupPathname, result>>
  /\ UNCHANGED <<envVars, inv, console>>

\* fixReadmeText: const { baseHref } = genBaseHref( packageContent )
GenBaseHref ==
  /\ pc = "genBaseHref"
  /\ \E r \in {genBaseHref(requireCache[packagePathname])} :
       IF r.threw
       THEN /\ Reject("TypeError", KEY_NAME)
            /\ UNCHANGED <<baseHref, baseHrefText>>
       ELSE /\ baseHref' = r.baseHref
            /\ baseHrefText' = r.baseHrefText
            /\ pc' = "encodeTagsPreformatted"
            /\ UNCHANGED error
  /\ UNCHANGED <<rawReadmeText, tagsPreformatted, cookedContentPreformatted, tagsLinks,
                 cookedContentLinks, cookedContent>>
  /\ UNCHANGED <<readmePathname, files, requireCache, packagePathname, readmeText,
                 packageLoaded, backupPathname, result>>
  /\ UNCHANGED <<envVars, fsLog, inv, console>>

\* A variant of fixReadmeText that returns the text as it was read
FixReadmeText_Raw ==
  /\ pc = "fixed"
  /\ readmeText' = rawReadmeText
  /\ pc' = "updatePackage"
  /\ UNCHANGED fixVars
  /\ UNCHANGED <<baseHrefText, readmePathname, files, requireCache, packagePathname, packageLoaded,
                 backupPathname, result, error>>
  /\ UNCHANGED <<envVars, fsLog, inv, console>>

\* const readmeText = fixReadmeText( ... ): fixLinks has returned
FixReadmeText ==
  /\ pc = "fixed"
  /\ readmeText' = cookedContent
  /\ pc' = "updatePackage"
  /\ UNCHANGED fixVars
  /\ UNCHANGED <<baseHrefText, readmePathname, files, requireCache, packagePathname, packageLoaded,
                 backupPathname, result, error>>
  /\ UNCHANGED <<envVars, fsLog, inv, console>>

\* updatePackage: const packageObj = loadPackage( packagePathname );
\* packageObj.readme = readmeText.  The record is the cached one, assigned to
\* in place; in strict mode the assignment to a string throws a TypeError.
UpdatePackage ==
  /\ pc = "updatePackage"
  /\ \E r \in {Require(packagePathname)} :
       /\ fsLog' = fsLog \o r.calls
       /\ IF ~r.ok
            THEN /\ Reject(r.name, packagePathname)
                 /\ UNCHANGED <<packageLoaded, requireCache>>
          ELSE IF r.cache[packagePathname].t # "object"
            THEN /\ Reject("TypeError", KEY_README)
                 /\ packageLoaded' = r.cache[packagePathname]
                 /\ requireCache' = r.cache
          ELSE /\ packageLoaded' = r.cache[packagePathname]
               /\ requireCache' =
                    [r.cache EXCEPT ![packagePathname] =
                       JSObject(SetProp(@.o, KEY_README, JSString(readmeText)))]
               /\ pc' = "copyFile"
               /\ UNCHANGED error
  /\ UNCHANGED fixVars
  /\ UNCHANGED <<baseHrefText, readmePathname, files, packagePathname, readmeText, backupPathname,
                 result>>
  /\ UNCHANGED <<envVars, inv, console>>

\* A variant of deleteFile that goes on to unlink the file without copying it
CopyFile_NoCopy ==
  /\ pc = "copyFile"
  /\ backupPathname' = genBackupPathname(packagePathname)
  /\ pc' = "unlink"
  /\ UNCHANGED fixVars
  /\ UNCHANGED <<baseHrefText, readmePathname, files, requireCache, packagePathname, readmeText,
                 packageLoaded, result, error>>
  /\ UNCHANGED <<envVars, fsLog, inv, console>>

\* deleteFile: const backupPathname = genBackupPathname( pathname );
\* fs.copyFileSync( pathname, backupPathname ).  The call throws when there is
\* no file to copy and when the file system refuses it.
CopyFile ==
  /\ pc = "copyFile"
  /\ backupPathname' = genBackupPathname(packagePathname)
  /\ fsLog' = Append(fsLog, FsCall("copyFileSync", packagePathname, 1))
  /\ \E refused \in Refusals :
       IF FileExists(packagePathname) /\ ~refused
       THEN /\ files' = FilesWith(genBackupPathname(packagePathname), files[packagePathname])
            /\ pc' = "unlink"
            /\ UNCHANGED error
       ELSE /\ Reject(IF FileExists(packagePathname) THEN "EACCES" ELSE "ENOENT",
                      packagePathname)
            /\ UNCHANGED files
  /\ UNCHANGED fixVars
  /\ UNCHANGED <<baseHrefText, readmePathname, requireCache, packagePathname, readmeText, packageLoaded,
                 result>>
  /\ UNCHANGED <<envVars, inv, console>>

\* deleteFile: await fsp.unlink( pathname ).  The promise of unlink is
\* rejected when there is no file and when the file system refuses the call;
\* the await throws what it is rejected with.
Unlink ==
  /\ pc = "unlink"
  /\ fsLog' = Append(fsLog, FsCall("unlink", packagePathname, 1))
  /\ \E refused \in Refusals :
       IF FileExists(packagePathname) /\ ~refused
       THEN /\ files' = FilesWithout(packagePathname)
            /\ pc' = "writeFileJSON"
            /\ UNCHANGED error
       ELSE /\ Reject(IF FileExists(packagePathname) THEN "EACCES" ELSE "ENOENT",
                      packagePathname)
            /\ UNCHANGED files
  /\ UNCHANGED fixVars
  /\ UNCHANGED <<baseHrefText, readmePathname, requireCache, packagePathname, readmeText, packageLoaded,
                 backupPathname, result>>
  /\ UNCHANGED <<envVars, inv, console>>

\* A variant of updatePackage that puts the backup back in the place of the
\* manifest when the write has failed
WriteFileJSON_Rollback ==
  /\ pc = "writeFileJSON"
  /\ fsLog' = Append(fsLog, FsCall("writeFileSync", packagePathname, 1))
  /\ \E refused \in Refusals :
       IF ~refused
       THEN /\ files' = FilesWith(packagePathname, writeFileJSON(requireCache[packagePathname]))
            /\ pc' = "return"
            /\ UNCHANGED error
       ELSE /\ Reject("EACCES", packagePathname)
            /\ files' = FilesWith(packagePathname, files[backupPathname])
  /\ UNCHANGED fixVars
  /\ UNCHANGED <<baseHrefText, readmePathname, requireCache, packagePathname, readmeText, packageLoaded,
                 backupPathname, result>>
  /\ UNCHANGED <<envVars, inv, console>>

\* updatePackage: writeFileJSON( packagePathname, packageObj ).
\* fs.writeFileSync throws when the file system refuses to create the file.
WriteFileJSON ==
  /\ pc = "writeFileJSON"
  /\ fsLog' = Append(fsLog, FsCall("writeFileSync", packagePathname, 1))
  /\ \E refused \in Refusals :
       IF ~refused
       THEN /\ files' = FilesWith(packagePathname, writeFileJSON(requireCache[packagePathname]))
            /\ pc' = "return"
            /\ UNCHANGED error
       ELSE /\ Reject("EACCES", packagePathname)
            /\ UNCHANGED files
  /\ UNCHANGED fixVars
  /\ UNCHANGED <<baseHrefText, readmePathname, requireCache, packagePathname, readmeText, packageLoaded,
                 backupPathname, result>>
  /\ UNCHANGED <<envVars, inv, console>>

\* updatePackage returns { backupPackagePathname }; processReadme adds
\* packagePathname and returns
Return ==
  /\ pc = "return"
  /\ result' = [settled |-> TRUE, packagePathname |-> packagePathname,
                backupPackagePathname |-> backupPathname]
  /\ pc' = "resolved"
  /\ UNCHANGED fixVars
  /\ UNCHANGED <<baseHrefText, readmePathname, files, requireCache, packagePathname, readmeText,
                 packageLoaded, backupPathname, error>>
  /\ UNCHANGED <<envVars, fsLog, inv, console>>

(***************************************************************************)
(* The runs of processReadme: what is on disk and the argument given       *)
(***************************************************************************)

Field(key, value) == [k |-> key, v |-> value]

KEY_DESCRIPTION == <<"d", "e", "s", "c">>
KEY_ACCESS      == <<"a", "c", "c", "e", "s", "s">>

\* The name entry of a manifest: none, a plain name, a scoped name
ManifestNames ==
  { << >>,
    <<Field(KEY_NAME, JSString(<<"p", "k", "g">>))>>,
    <<Field(KEY_NAME, JSString(<<"@", "s", "/", "p">>))>> }

\* The readme entry of a manifest: none, or the text of an earlier publication
ManifestReadmes == { << >>, <<Field(KEY_README, JSString(<<"o", "l", "d">>))>> }

\* The publishConfig entry of a manifest: none, one without a registry, one
\* with an empty registry, two with a registry, one that is no record
ManifestPublishConfigs ==
  { << >>,
    <<Field(KEY_PUBLISHCONFIG, JSObject(<< >>))>>,
    <<Field(KEY_PUBLISHCONFIG, JSObject(<<Field(KEY_REGISTRY, JSString(<< >>))>>))>>,
    <<Field(KEY_PUBLISHCONFIG,
            JSObject(<<Field(KEY_REGISTRY, JSString(<<"h", ":", "/", "/", "r">>))>>))>>,
    <<Field(KEY_PUBLISHCONFIG,
            JSObject(<<Field(KEY_ACCESS, JSString(<<"x">>)),
                       Field(KEY_REGISTRY, JSString(<<"R", "$", "&">>))>>))>>,
    <<Field(KEY_PUBLISHCONFIG, JSString(<<"s">>))>> }

\* The manifest records: name, readme, a description with characters JSON
\* escapes, publishConfig
ManifestRecords ==
  { JSObject(n \o r \o <<Field(KEY_DESCRIPTION, JSString(<<QUOTE, BACKSLASH, "\n">>))>> \o c) :
      n \in ManifestNames, r \in ManifestReadmes, c \in ManifestPublishConfigs }

\* The indentations a manifest on disk is written with
ManifestGaps == {0, 2, 4}

\* The contents of a manifest file: a record, a string, null, a text that is
\* no JSON
ManifestTexts ==
  { JSONstringify(m, g) : m \in ManifestRecords, g \in ManifestGaps }
    \cup { <<QUOTE, "s", QUOTE>>, <<"n", "u", "l", "l">>, <<"{", QUOTE, "n">> }

\* The contents of a documentation file
ReadmeTexts ==
  { << >>,
    <<"x", QUOTE, BACKSLASH>>,
    LINK_AB \o <<"\r", "\n">> \o LINK_AB,
    <<"#", " ", "T", "\n">> \o LINK_AND_BLOCK \o <<"\n", "$", "&">> }

\* The projects: the absolute pathnames of a documentation file and of the
\* manifest beside it
Projects ==
  { [readme   |-> cwd \o <<"/", "R", "E", "A", "D", "M", "E", ".", "m", "d">>,
     manifest |-> cwd \o <<"/">> \o PACKAGE_FILENAME],
    [readme   |-> cwd \o <<"/", "d", "/", "R", ".", "m", "d">>,
     manifest |-> cwd \o <<"/", "d", "/">> \o PACKAGE_FILENAME],
    [readme   |-> <<"/", "a", "/", "R", ".", "M", "D">>,
     manifest |-> <<"/", "a", "/">> \o PACKAGE_FILENAME] }

\* The arguments processReadme is called with
ReadmePathnames ==
  { JSUndefined,
    JSString(<<"d", "/", "R", ".", "m", "d">>),
    JSString(<<"/", "a", "/", ".", "/", "R", ".", "M", "D">>),
    JSString(<<"n", "o", ".", "m", "d">>),
    JSString(<< >>) }

Init ==
  /\ pc = "readFile"
  /\ readmePathname \in ReadmePathnames
  /\ \E project \in Projects, text \in ReadmeTexts :
       \/ files = [q \in {project.readme} |-> text]
       \/ \E manifest \in ManifestTexts :
            files = [q \in {project.readme, project.manifest} |->
                       IF q = project.readme THEN text ELSE manifest]
  /\ requireCache = << >>
  /\ rawReadmeText = << >>
  /\ baseHref = << >>
  /\ baseHrefText = << >>
  /\ tagsPreformatted = << >>
  /\ cookedContentPreformatted = << >>
  /\ tagsLinks = << >>
  /\ cookedContentLinks = << >>
  /\ cookedContent = << >>
  /\ packagePathname = << >>
  /\ readmeText = << >>
  /\ packageLoaded = JSUndefined
  /\ backupPathname = << >>
  /\ result = NoResult
  /\ error = NoError
  /\ platform = "linux"
  /\ pid = 4321
  /\ argv = << >>
  /\ filesAtStart = files
  /\ fsLog = << >>
  /\ inv = << >>
  /\ console = << >>

Next ==
  \/ ReadFile
  \/ GenPackagePathname
  \/ LoadPackage
  \/ GenBaseHref
  \/ EncodeTagsPreformatted
  \/ EncodeTagsLinks
  \/ GenFixedLinks
  \/ DecodeTagsLinks
  \/ DecodeTagsPreformatted
  \/ FixReadmeText
  \/ UpdatePackage
  \/ CopyFile
  \/ Unlink
  \/ WriteFileJSON
  \/ Return

Spec == Init /\ [][Next]_vars

(***************************************************************************)
(* The vocabulary of the claims about fixLinks, stated on the input text   *)
(***************************************************************************)

\* A preformatted region starts at index i: an open tag in any letter case at i
\* and a close tag somewhere after it, on the same line or a later one.  The
\* value is the index of the last character of the first such close tag, 0
\* when no region starts at i.
PreRegionEnd(text, i) ==
  IF ~IsAtIgnoreCase(text, PRE_OPEN, i) THEN 0
  ELSE LET closes == { j \in (i + Len(PRE_OPEN))..Len(text) :
                         IsAtIgnoreCase(text, PRE_CLOSE, j) }
       IN  IF closes = {} THEN 0 ELSE Min(closes) + Len(PRE_CLOSE) - 1

\* An intra-document link [label](#fragment) starts at index i: the index of
\* the "]" that ends its label, 0 when no link starts at i
LinkLabelEnd(text, i) ==
  IF i > Len(text) \/ text[i] # "[" THEN 0
  ELSE LET rb == { j \in (i + 1)..Len(text) : text[j] = "]" }
       IN  IF rb = {} THEN 0
           ELSE LET j == Min(rb)
                IN  IF /\ j > i + 1
                       /\ \A n \in (i + 1)..(j - 1) : text[n] \notin {"\n", "\r"}
                       /\ IsAt(text, <<"]", "(", "#">>, j)
                    THEN j ELSE 0

\* The index of the ")" that ends the link starting at index i, 0 when no link
\* starts at i
LinkEnd(text, i) ==
  LET j == LinkLabelEnd(text, i)
  IN  IF j = 0 THEN 0
      ELSE LET rp == { k \in (j + 3)..Len(text) : text[k] = ")" }
           IN  IF rp = {} THEN 0
               ELSE LET k == Min(rp)
                    IN  IF /\ k > j + 3
                           /\ \A n \in (j + 3)..(k - 1) : text[n] \notin {"\n", "\r"}
                        THEN k ELSE 0

\* The characters b..e of text touch a preformatted region
InPreRegion(text, b, e) ==
  \E i \in 1..Len(text) :
    /\ PreRegionEnd(text, i) # 0
    /\ i <= e
    /\ PreRegionEnd(text, i) >= b

\* The indices where a link outside every preformatted region starts
LinkStarts(text) ==
  { i \in 1..Len(text) : LinkEnd(text, i) # 0 /\ ~InPreRegion(text, i, LinkEnd(text, i)) }

\* The absolute link for the link at index i: [label](BASE#fragment)
AbsoluteLink(text, i, base) ==
  LET j == LinkLabelEnd(text, i)
      k == LinkEnd(text, i)
  IN  SubSeq(text, i, j + 1) \o base \o SubSeq(text, j + 2, k)

RECURSIVE ExpectedTextFrom(_, _, _)
\* The text from index from on, with every preformatted region copied and
\* every link outside them made absolute, and every other character copied
ExpectedTextFrom(text, base, from) ==
  LET events == { i \in from..Len(text) :
                    PreRegionEnd(text, i) # 0 \/ LinkEnd(text, i) # 0 }
  IN  IF events = {} THEN From(text, from)
      ELSE LET i == Min(events)
               e == PreRegionEnd(text, i)
           IN  IF e # 0
               THEN SubSeq(text, from, e) \o ExpectedTextFrom(text, base, e + 1)
               ELSE SubSeq(text, from, i - 1) \o AbsoluteLink(text, i, base)
                      \o ExpectedTextFrom(text, base, LinkEnd(text, i) + 1)

ExpectedText(text, base) == ExpectedTextFrom(text, base, 1)

\* The text holds neither a preformatted region nor a link
NoConstructs(text) ==
  \A i \in 1..Len(text) : PreRegionEnd(text, i) = 0 /\ LinkEnd(text, i) = 0

\* The run is past the statement named
PastPreformattedPass == pc \in {"encodeTagsLinks", "genFixedLink", "decodeTagsLinks",
                                "decodeTagsPreformatted", "fixed"}
PastLinksPass == pc \in {"genFixedLink", "decodeTagsLinks", "decodeTagsPreformatted", "fixed"}

(***************************************************************************)
(* Claims about fixLinks                                                   *)
(***************************************************************************)

\* C1: when fixLinks has returned, every preformatted region of the input, on
\* one line or over several, is a substring of the output, unchanged.
C1_PreformattedUnchanged ==
  pc = "fixed" =>
    \A i \in 1..Len(rawReadmeText) :
      PreRegionEnd(rawReadmeText, i) # 0 =>
        Includes(cookedContent, SubSeq(rawReadmeText, i, PreRegionEnd(rawReadmeText, i)))

\* C2: when fixLinks has returned, for every link [label](#fragment) of the
\* input outside the preformatted regions the output holds
\* [label](BASE#fragment), whatever the label, a label holding "(#" included.
C2_LinkMadeAbsolute ==
  pc = "fixed" =>
    \A i \in LinkStarts(rawReadmeText) :
      Includes(cookedContent, AbsoluteLink(rawReadmeText, i, baseHref))

\* C3: when fixLinks has returned, the output is the input with the targets of
\* the links outside preformatted regions made absolute and nothing else
\* changed, whatever the input holds ("$" sequences and "!TAG!" included).
C3_OnlyLinkTargetsChange ==
  pc = "fixed" => cookedContent = ExpectedText(rawReadmeText, baseHref)

\* C4: when the same link text stands at several places outside preformatted
\* regions, the output no longer holds the link as written and holds its
\* absolute form at least as many times as the link stood in the input.
C4_DuplicateLinksRewritten ==
  pc = "fixed" =>
    \A i \in LinkStarts(rawReadmeText) :
      LET link  == SubSeq(rawReadmeText, i, LinkEnd(rawReadmeText, i))
          same  == { n \in LinkStarts(rawReadmeText) :
                       SubSeq(rawReadmeText, n, LinkEnd(rawReadmeText, n)) = link }
      IN  Cardinality(same) >= 2 =>
            /\ CountOf(cookedContent, AbsoluteLink(rawReadmeText, i, baseHref), 1)
                 >= Cardinality(same)
            /\ \A n \in 1..Len(cookedContent) :
                 IsAt(cookedContent, link, n) => InPreRegion(cookedContent, n, n + Len(link) - 1)

\* C5: for a text with no preformatted region and no link, both passes of
\* encodeTags return no tag and the text unchanged, and fixLinks returns the
\* text unchanged.
C5_NoConstructsNoChange ==
  NoConstructs(rawReadmeText) =>
    /\ PastPreformattedPass =>
         tagsPreformatted = << >> /\ cookedContentPreformatted = rawReadmeText
    /\ PastLinksPass =>
         tagsLinks = << >> /\ cookedContentLinks = rawReadmeText
    /\ pc = "fixed" => cookedContent = rawReadmeText

\* C5 witness: fixLinks has returned for a text without constructs that holds
\* an open tag without a close tag, a "$&" and other text
C5_Witness ==
  /\ pc = "fixed"
  /\ NoConstructs(rawReadmeText)
  /\ Includes(rawReadmeText, <<"<", "p", "R", "e", ">">>)
  /\ Includes(rawReadmeText, <<"$", "&">>)
  /\ Len(rawReadmeText) >= 8

\* C6: round trip: after each pass of encodeTags, decodeTags of the text and
\* the tags the pass returned is the text the pass was given.
C6_RoundTrip ==
  /\ pc = "encodeTagsLinks" =>
       decodeTags(cookedContentPreformatted, tagsPreformatted) = rawReadmeText
  /\ pc = "genFixedLink" =>
       decodeTags(cookedContentLinks, tagsLinks) = cookedContentPreformatted

\* The tags are those of the matches, in match order: as many entries as
\* matches, the i-th key "!TAG!" + tagPrefix + two decimal digits of i (from 0),
\* the i-th value the i-th match, no key twice
TagsOfMatches(tags, tagPrefix, matches) ==
  /\ Len(tags) = Len(matches)
  /\ \A i \in 1..Len(tags) :
       /\ tags[i].k = TAG_MARK \o tagPrefix
                        \o <<Digits[((i - 1) \div 10) + 1], Digits[((i - 1) % 10) + 1]>>
       /\ tags[i].v = matches[i]
  /\ \A i, j \in 1..Len(tags) : i # j => tags[i].k # tags[j].k

\* C7: a pass of encodeTags over a text with N matches returns N entries, the
\* i-th keyed "!TAG!" + tagPrefix + i in two digits and holding the i-th match,
\* with pairwise distinct keys.
C7_TagsOfMatches ==
  /\ PastPreformattedPass =>
       TagsOfMatches(tagsPreformatted, PREFIX_PREF,
                     StringMatch(rawReadmeText, RE_PREFORMATTED))
  /\ pc = "genFixedLink" =>
       TagsOfMatches(tagsLinks, PREFIX_LINK,
                     StringMatch(cookedContentPreformatted, RE_LINKS))

\* C7 witness: both passes have returned more than ten tags, two of the link
\* tags for the same link text
C7_Witness ==
  /\ pc = "genFixedLink"
  /\ Len(tagsPreformatted) > 10
  /\ Len(tagsLinks) > 10
  /\ tagsLinks[1].v = tagsLinks[11].v

(***************************************************************************)
(* Claims about genBaseHref and updatePackage                              *)
(***************************************************************************)

\* The texts the claims name, written out
WEB_DETAIL_PATH == <<"/", "-", "/", "w", "e", "b", "/", "d", "e", "t", "a", "i", "l", "/">>
LOCALHOST_4873 ==
  <<"h", "t", "t", "p", ":", "/", "/", "l", "o", "c", "a", "l", "h", "o", "s", "t",
    ":", "4", "8", "7", "3">>
BASE_TAG_OPEN == <<"<", "b", "a", "s", "e", " ", "h", "r", "e", "f", "=", QUOTE>>

\* The manifest genBaseHref was given, its publishConfig and the registry in it
Manifest              == requireCache[packagePathname]
ManifestPublishConfig == GetProp(Manifest, KEY_PUBLISHCONFIG)
ManifestRegistry      == GetProp(ManifestPublishConfig, KEY_REGISTRY)

\* genBaseHref has returned
PastGenBaseHref == baseHrefText # << >>

\* The registry of the manifest: the one it configures, else the default
RegistryOfManifest ==
  IF ManifestRegistry.t = "string" /\ ManifestRegistry.s # << >>
  THEN ManifestRegistry.s ELSE LOCALHOST_4873

C9_RegistryOrDefault ==
  PastGenBaseHref =>
    /\ (ManifestRegistry.t = "string" /\ ManifestRegistry.s # << >>) =>
         IsAt(baseHref, ManifestRegistry.s \o WEB_DETAIL_PATH, 1)
    /\ (\/ ManifestPublishConfig.t = "undefined"
        \/ ManifestRegistry.t = "undefined"
        \/ ManifestRegistry = JSString(<< >>)) =>
         IsAt(baseHref, LOCALHOST_4873 \o WEB_DETAIL_PATH, 1)

\* C9 witness: genBaseHref has returned for a manifest whose
\* publishConfig.registry is the empty string
C9_Witness ==
  /\ pc = "encodeTagsPreformatted"
  /\ ManifestPublishConfig.t = "object"
  /\ ManifestRegistry = JSString(<< >>)
  /\ IsAt(baseHref, LOCALHOST_4873, 1)

\* The record differs from the loaded one in nothing but readme, which is the
\* text: the same fields but for readme, each other field with the loaded value
OnlyReadmeDiffers(record, loaded, text) ==
  /\ record.t = "object"
  /\ GetProp(record, KEY_README) = JSString(text)
  /\ Keys(record.o) = Keys(loaded.o) \cup {KEY_README}
  /\ \A key \in Keys(loaded.o) \ {KEY_README} : GetProp(record, key) = GetProp(loaded, key)

\* updatePackage has assigned the readme; it has written the manifest
PastAssignment == pc \in {"copyFile", "unlink", "writeFileJSON", "return", "resolved"}
PastWrite      == pc \in {"return", "resolved"}

\* C10: the record updatePackage holds after its assignment, and the record in
\* the manifest file after its write, differ from the record it loaded in
\* nothing but readme, which is the text given; and the file is the JSON text
\* of that record with an indentation of 2 spaces.
C10_OnlyReadmeChanged ==
  /\ PastAssignment => OnlyReadmeDiffers(Manifest, packageLoaded, readmeText)
  /\ PastWrite =>
       \A written \in {JSONparse(files[packagePathname])} :
         /\ written.ok
         /\ OnlyReadmeDiffers(written.value, packageLoaded, readmeText)
         /\ files[packagePathname] = JSONstringify(written.value, 2)

\* C10 witness: the manifest has been written; it had a readme of an earlier
\* publication, a name and a publishConfig, and was not indented by 2 on disk;
\* the new readme holds a link made absolute and a line break
C10_Witness ==
  /\ pc = "resolved"
  /\ GetProp(packageLoaded, KEY_README) = JSString(<<"o", "l", "d">>)
  /\ GetProp(packageLoaded, KEY_NAME).t = "string"
  /\ GetProp(packageLoaded, KEY_PUBLISHCONFIG).t = "object"
  /\ files[backupPathname] # JSONstringify(packageLoaded, 2)
  /\ readmeText # rawReadmeText
  /\ Includes(readmeText, <<"\n">>)
  /\ files[packagePathname] # files[backupPathname]


(***************************************************************************)
(* The claims about updatePackage and deleteFile                           *)
(***************************************************************************)

\* updatePackage has been called in the run
UpdatePackageCalled == pc = "updatePackage" \/ packageLoaded.t # "undefined"

\* The positions in the log of the calls of a function on the manifest
CallsOf(op) ==
  { i \in DOMAIN fsLog : fsLog[i].op = op /\ fsLog[i].path = packagePathname }

\* C11: in a run of updatePackage the backup copy of the manifest is made
\* before the manifest is unlinked and the unlink is made before the manifest
\* is written; and in every state of the run where the manifest is absent from
\* disk, the backup file exists and holds the content the manifest had on disk
\* when the run started.
C11_BackupBeforeUnlinkBeforeWrite ==
  UpdatePackageCalled =>
    /\ \A u \in CallsOf("unlink") : \E c \in CallsOf("copyFileSync") : c < u
    /\ \A w \in CallsOf("writeFileSync") : \E u \in CallsOf("unlink") : u < w
    /\ \A c \in CallsOf("copyFileSync") :
         \A u \in CallsOf("unlink") \cup CallsOf("writeFileSync") : c < u
    /\ \A u \in CallsOf("unlink") : \A w \in CallsOf("writeFileSync") : u < w
    /\ ~FileExists(packagePathname) =>
         /\ FileExists(genBackupPathname(packagePathname))
         /\ packagePathname \in DOMAIN filesAtStart
         /\ files[genBackupPathname(packagePathname)] = filesAtStart[packagePathname]

\* The manifest has been unlinked and is not written yet: it is absent from disk
C11_Witness ==
  /\ pc = "writeFileJSON"
  /\ ~FileExists(packagePathname)
  /\ CallsOf("unlink") # {}
  /\ files[genBackupPathname(packagePathname)] = filesAtStart[packagePathname]


(***************************************************************************)
(* genBackupPathname, called on its own on every platform                  *)
(***************************************************************************)

\* The values of process.platform
Platforms == {"linux", "win32", "darwin"}

\* The values of process.pid
ProcessIds == {7, 4321, 65536}

\* The pathnames genBackupPathname is called with
BackupSourcePathnames ==
  { cwd \o <<"/">> \o PACKAGE_FILENAME,
    <<"C", ":", BACKSLASH, "w", BACKSLASH>> \o PACKAGE_FILENAME,
    <<"d", "/", "R", ".", "m", "d">>,
    <<"a", ".", "b", ":", "c">>,
    <<"/", "a", "/", ".", ".", "/", "b">>,
    <<"/", "/">>,
    <<"x">>,
    << >> }

InitGenBackupPathname ==
  /\ pc = "genBackupPathname"
  /\ platform \in Platforms
  /\ pid \in ProcessIds
  /\ packagePathname \in BackupSourcePathnames
  /\ backupPathname = << >>
  /\ rawReadmeText = << >>
  /\ baseHref = << >>
  /\ tagsPreformatted = << >>
  /\ cookedContentPreformatted = << >>
  /\ tagsLinks = << >>
  /\ cookedContentLinks = << >>
  /\ cookedContent = << >>
  /\ baseHrefText = << >>
  /\ readmePathname = JSUndefined
  /\ files = << >>
  /\ requireCache = << >>
  /\ readmeText = << >>
  /\ packageLoaded = JSUndefined
  /\ result = NoResult
  /\ error = NoError
  /\ argv = << >>
  /\ filesAtStart = files
  /\ fsLog = << >>
  /\ inv = << >>
  /\ console = << >>

\* const backupPathname = genBackupPathname( pathname )
GenBackupPathname ==
  /\ pc = "genBackupPathname"
  /\ backupPathname' = genBackupPathname(packagePathname)
  /\ pc' = "genBackupPathname.return"
  /\ UNCHANGED fixVars
  /\ UNCHANGED <<baseHrefText, readmePathname, files, requireCache, packagePathname, readmeText,
                 packageLoaded, result, error>>
  /\ UNCHANGED <<envVars, fsLog, inv, console>>

NextGenBackupPathname == GenBackupPathname

SpecGenBackupPathname == InitGenBackupPathname /\ [][NextGenBackupPathname]_vars

\* The number a sequence of decimal digits denotes
RECURSIVE DecimalValue(_)
DecimalValue(digits) ==
  IF digits = << >> THEN 0
  ELSE 10 * DecimalValue(SubSeq(digits, 1, Len(digits) - 1))
         + (CHOOSE d \in 0..9 :
              <<"0", "1", "2", "3", "4", "5", "6", "7", "8", "9">>[d + 1] = digits[Len(digits)])

\* The backup directory of the platform, with the separator that joins a file
\* name to it
BackupDirOfPlatform ==
  IF platform = "win32" THEN <<"C", ":", BACKSLASH, "T", "e", "m", "p", BACKSLASH>>
  ELSE <<"/", "t", "m", "p", "/">>

\* The pathname with every slash, backslash, dot and colon replaced by a dash
Dashed(pathname) ==
  [i \in 1..Len(pathname) |->
     IF pathname[i] = "/" \/ pathname[i] = BACKSLASH \/ pathname[i] = "." \/ pathname[i] = ":"
     THEN "-" ELSE pathname[i]]

\* C12: genBackupPathname(pathname) returns the backup directory (C:\Temp on
\* win32, /tmp on every other platform) joined with "tmp-", then the pathname
\* with every slash, backslash, dot and colon replaced by a dash, then ".",
\* then the process identifier in decimal.
C12_BackupPathname ==
  pc = "genBackupPathname.return" =>
    LET head   == BackupDirOfPlatform \o <<"t", "m", "p", "-">> \o Dashed(packagePathname)
                    \o <<".">>
        digits == SubSeq(backupPathname, Len(head) + 1, Len(backupPathname))
    IN  /\ Len(backupPathname) > Len(head)
        /\ SubSeq(backupPathname, 1, Len(head)) = head
        /\ \A i \in DOMAIN digits :
             digits[i] \in {"0", "1", "2", "3", "4", "5", "6", "7", "8", "9"}
        /\ digits[1] # "0"
        /\ DecimalValue(digits) = pid

\* genBackupPathname has returned on win32, for a pathname with a drive colon,
\* backslashes and a dot, in a process whose identifier has several digits
C12_Witness ==
  /\ pc = "genBackupPathname.return"
  /\ platform = "win32"
  /\ pid > 9
  /\ {":", BACKSLASH, "."} \subseteq { packagePathname[i] : i \in DOMAIN packagePathname }
  /\ backupPathname # << >>


(***************************************************************************)
(* The command-line entry points: index.js of src/unnamed/part_000 and the *)
(* last statements of src/readme-fixer.js                                  *)
(***************************************************************************)

DOT_MD == <<".", "m", "d">>

\* lastArg.match( /\.md$/i ): the text ends in ".md" in any letter case
MatchDotMd(lastArg) ==
  /\ Len(lastArg) >= Len(DOT_MD)
  /\ IsAtIgnoreCase(lastArg, DOT_MD, Len(lastArg) - Len(DOT_MD) + 1)

\* index.js: lastArg is the last element of process.argv; processReadme is
\* called with it when it matches, with undefined when it does not
Main ==
  /\ pc = "index.js"
  /\ readmePathname' = IF MatchDotMd(argv[Len(argv)]) THEN JSString(argv[Len(argv)])
                         ELSE JSUndefined
  /\ pc' = "readFile"
  /\ UNCHANGED fixVars
  /\ UNCHANGED <<baseHrefText, files, requireCache, packagePathname, readmeText, packageLoaded,
                 backupPathname, result, error>>
  /\ UNCHANGED <<envVars, fsLog, inv, console>>

\* src/readme-fixer.js: const pathname = process.argv[ 2 ] || DEFAULT_README_PATHNAME;
\* run( pathname ).  process.argv[ 2 ] is the third element of argv.
MainLegacy ==
  /\ pc = "readme-fixer.js"
  /\ readmePathname' = IF Len(argv) >= 3 /\ argv[3] # << >> THEN JSString(argv[3])
                         ELSE JSString(DEFAULT_README_PATHNAME)
  /\ pc' = "run.readFile"
  /\ UNCHANGED fixVars
  /\ UNCHANGED <<baseHrefText, files, requireCache, packagePathname, readmeText, packageLoaded,
                 backupPathname, result, error>>
  /\ UNCHANGED <<envVars, fsLog, inv, console>>

\* readFile( readmePathname ) called at the statement at, returning to the
\* statement returned: the argument is taken as it is given
ReadFileCalled(at, returned) ==
  /\ pc = at
  /\ IF ~Truthy(readmePathname)
       THEN /\ Reject("Error", <<"N", "o", " ", "p", "a", "t", "h", "n", "a", "m", "e",
                                 " ", "s", "p", "e", "c", "i", "f", "i", "e", "d">>)
            /\ UNCHANGED <<rawReadmeText, fsLog>>
     ELSE IF FileExists(readmePathname.s)
       THEN /\ rawReadmeText' = files[AbsolutePath(readmePathname.s)]
            /\ fsLog' = fsLog \o <<FsCall("existsSync", AbsolutePath(readmePathname.s), 1),
                                    FsCall("readFileSync", AbsolutePath(readmePathname.s), 1)>>
            /\ pc' = returned
            /\ UNCHANGED error
     ELSE /\ Reject("Error", <<"F", "i", "l", "e", " ", "n", "o", "t", " ", "f", "o",
                               "u", "n", "d", ":", " ">> \o readmePathname.s)
          /\ fsLog' = Append(fsLog, FsCall("existsSync", AbsolutePath(readmePathname.s), 1))
          /\ UNCHANGED rawReadmeText
  /\ UNCHANGED <<baseHref, tagsPreformatted, cookedContentPreformatted, tagsLinks,
                 cookedContentLinks, cookedContent>>
  /\ UNCHANGED <<baseHrefText, readmePathname, files, requireCache, packagePathname, readmeText,
                 packageLoaded, backupPathname, result>>
  /\ UNCHANGED <<envVars, inv, console>>

\* src/readme-fixer.js, run: const rawReadmeText = readFile( readmePathname ).
\* The statements of run after it are those of processReadme in an earlier
\* form; the model follows run up to here.
RunReadFile == ReadFileCalled("run.readFile", "run.genPackagePathname")

\* index.js: the function given to then
MainThen ==
  /\ pc = "resolved"
  /\ argv # << >>
  /\ console' = console \o
       << <<"B", "a", "c", "k", "u", "p", " ", "p", "a", "c", "k", "a", "g", "e", " ", "f",
            "i", "l", "e", " ", "c", "r", "e", "a", "t", "e", "d", ":", " ">>
            \o result.backupPackagePathname,
          <<"P", "a", "c", "k", "a", "g", "e", " ", "f", "i", "l", "e", " ", "r", "e", "a",
            "d", "m", "e", " ", "u", "p", "d", "a", "t", "e", "d", ":", " ">>
            \o result.packagePathname >>
  /\ pc' = "exit"
  /\ UNCHANGED <<fixVars, procVars, envVars, fsLog, inv>>

\* index.js and src/readme-fixer.js: the function given to catch
MainCatch ==
  /\ pc = "rejected"
  /\ argv # << >>
  /\ console' = Append(console, <<"E", "R", "R", "O", "R", ":", " ">> \o error.message)
  /\ pc' = "exit"
  /\ UNCHANGED <<fixVars, procVars, envVars, fsLog, inv>>

\* The arguments after the script on the command line
CommandLineArguments ==
  { << >>,
    << <<"d", "/", "R", ".", "m", "d">> >>,
    << <<"/", "a", "/", ".", "/", "R", ".", "M", "D">> >>,
    << <<"n", "o", ".", "m", "D">> >>,
    << <<"d", "/", "R", ".", "m", "d", "x">> >>,
    << <<"/", "a", "/", "n", ".", "t", "x", "t">> >>,
    << <<"m", "d">> >>,
    << << >> >> }

\* The manifests of the projects a command-line run finds
MainManifestTexts ==
  { JSONstringify(JSObject(<<Field(KEY_NAME, JSString(<<"p", "k", "g">>))>>), 2),
    JSONstringify(JSObject(<<Field(KEY_README, JSString(<<"o", "l", "d">>))>>), 0),
    <<"{", QUOTE, "n">> }

\* The files beside the documentation file that are no documentation
NotesTexts == { <<"n">> }

InitMain ==
  /\ pc \in {"index.js", "readme-fixer.js"}
  /\ \E arguments \in CommandLineArguments :
       argv = << <<"n", "o", "d", "e">>, <<"/", "m", "/">> \o Flatten(<<pc>>) >> \o arguments
  /\ \E project \in Projects, text \in ReadmeTexts, manifest \in MainManifestTexts,
        notes \in NotesTexts :
       files = [q \in {project.readme, project.manifest,
                       <<"/", "a", "/", "n", ".", "t", "x", "t">>} |->
                  IF q = project.readme THEN text
                  ELSE IF q = project.manifest THEN manifest ELSE notes]
  /\ readmePathname = JSUndefined
  /\ requireCache = << >>
  /\ rawReadmeText = << >>
  /\ baseHref = << >>
  /\ baseHrefText = << >>
  /\ tagsPreformatted = << >>
  /\ cookedContentPreformatted = << >>
  /\ tagsLinks = << >>
  /\ cookedContentLinks = << >>
  /\ cookedContent = << >>
  /\ packagePathname = << >>
  /\ readmeText = << >>
  /\ packageLoaded = JSUndefined
  /\ backupPathname = << >>
  /\ result = NoResult
  /\ error = NoError
  /\ platform = "linux"
  /\ pid = 4321
  /\ filesAtStart = files
  /\ fsLog = << >>
  /\ inv = << >>
  /\ console = << >>

NextMain ==
  \/ Main
  \/ MainLegacy
  \/ RunReadFile
  \/ MainThen
  \/ MainCatch
  \/ Next

SpecMain == InitMain /\ [][NextMain]_vars

\* The argument given on the command line, where one is given
HasArgument == Len(argv) >= 3

\* The text ends in ".md", ".mD", ".Md" or ".MD"
EndsInDotMd(text) ==
  /\ Len(text) >= 3
  /\ text[Len(text) - 2] = "."
  /\ text[Len(text) - 1] \in {"m", "M"}
  /\ text[Len(text)] \in {"d", "D"}

\* C13: the command-line entry point processes the pathname it is given only
\* when that argument ends in ".md" in any letter case; when no argument is
\* given, or the argument does not end in ".md", it processes ./README.md.
\* The pathname processed is the one readFile looks for.
C13_ArgumentOnlyIfDotMd ==
  (argv # << >> /\ fsLog # << >>) =>
    fsLog[1].path =
      AbsolutePath(IF HasArgument /\ EndsInDotMd(argv[3]) THEN argv[3]
                   ELSE DEFAULT_README_PATHNAME)


(***************************************************************************)
(* readFile, called on its own                                             *)
(***************************************************************************)

InitReadFile ==
  /\ pc = "readFile.call"
  /\ readmePathname \in ReadmePathnames
  /\ \E project \in Projects, text \in ReadmeTexts :
       \/ files = [q \in {project.readme} |-> text]
       \/ \E manifest \in MainManifestTexts :
            files = [q \in {project.readme, project.manifest} |->
                       IF q = project.readme THEN text ELSE manifest]
  /\ requireCache = << >>
  /\ rawReadmeText = << >>
  /\ baseHref = << >>
  /\ baseHrefText = << >>
  /\ tagsPreformatted = << >>
  /\ cookedContentPreformatted = << >>
  /\ tagsLinks = << >>
  /\ cookedContentLinks = << >>
  /\ cookedContent = << >>
  /\ packagePathname = << >>
  /\ readmeText = << >>
  /\ packageLoaded = JSUndefined
  /\ backupPathname = << >>
  /\ result = NoResult
  /\ error = NoError
  /\ platform = "linux"
  /\ pid = 4321
  /\ argv = << >>
  /\ filesAtStart = files
  /\ fsLog = << >>
  /\ inv = << >>
  /\ console = << >>

\* readFile( pathname ), called by a caller of its own
CallReadFile == ReadFileCalled("readFile.call", "readFile.return")

NextReadFile == CallReadFile

SpecReadFile == InitReadFile /\ [][NextReadFile]_vars

NO_PATHNAME_SPECIFIED ==
  <<"N", "o", " ", "p", "a", "t", "h", "n", "a", "m", "e", " ", "s", "p", "e", "c", "i", "f",
    "i", "e", "d">>

FILE_NOT_FOUND == <<"F", "i", "l", "e", " ", "n", "o", "t", " ", "f", "o", "u", "n", "d", ":", " ">>

\* The functions of fs that read the content of a file
ReadCalls == { i \in DOMAIN fsLog : fsLog[i].op \in {"readFileSync", "require"} }

\* C14: readFile fails with the message "No pathname specified", without any
\* call to the file system, when the pathname is empty or undefined; it fails
\* with "File not found: " and the pathname, without attempting a read, when
\* no file is at the pathname; otherwise it returns the content of the file.
C14_ReadFileErrors ==
  pc # "readFile.call" =>
    IF readmePathname.t = "undefined" \/ readmePathname.s = << >>
      THEN /\ pc = "rejected"
           /\ error.message = NO_PATHNAME_SPECIFIED
           /\ fsLog = << >>
    ELSE IF AbsolutePath(readmePathname.s) \notin DOMAIN filesAtStart
      THEN /\ pc = "rejected"
           /\ error.message = FILE_NOT_FOUND \o readmePathname.s
           /\ ReadCalls = {}
    ELSE /\ pc = "readFile.return"
         /\ error = NoError
         /\ rawReadmeText = filesAtStart[AbsolutePath(readmePathname.s)]

\* readFile has failed for a pathname that no file is at: it has asked whether
\* the file exists and has read nothing
C14_Witness ==
  /\ pc = "rejected"
  /\ readmePathname.t = "string"
  /\ readmePathname.s # << >>
  /\ error.message = FILE_NOT_FOUND \o readmePathname.s
  /\ Len(fsLog) = 1
  /\ fsLog[1].op = "existsSync"


(***************************************************************************)
(* Two invocations of processReadme in one process.  An invocation runs    *)
(* without interruption up to its await of fsp.unlink; the unlink is made  *)
(* by the thread pool at a later time; the invocation resumes after that.  *)
(***************************************************************************)

Invocations == {1, 2}

\* The state of an invocation: where it is, its argument, its local constants,
\* what its promise is settled with
Invocation(at, argument, package, backup, err) ==
  [pc |-> at, readmePathname |-> argument, packagePathname |-> package,
   backupPathname |-> backup, error |-> err]

\* The calls of a list, made by invocation i
CallsBy(calls, i) == [k \in DOMAIN calls |-> [calls[k] EXCEPT !.by = i]]

\* Invocation i has gone on to the state next, leaving the file system, the
\* module cache and the log as given
TwoStep(i, next, newFiles, newCache, calls) ==
  /\ inv' = [inv EXCEPT ![i] = next]
  /\ files' = newFiles
  /\ requireCache' = newCache
  /\ fsLog' = fsLog \o CallsBy(calls, i)

\* Invocation i ends rejected
TwoReject(i, name, message, newCache, calls) ==
  TwoStep(i, [inv[i] EXCEPT !.pc = "rejected",
                            !.error = [name |-> name, message |-> message]],
          files, newCache, calls)

\* updatePackage up to the await in deleteFile, for the manifest at the
\* pathname package that loadPackage has returned the record of: the
\* assignment to readme, genBackupPathname, fs.copyFileSync, the call of
\* fsp.unlink.  The second loadPackage returns the cached record.
TwoUpdatePackage(i, package, cache, text, calls) ==
  IF cache[package].t # "object"
    THEN TwoReject(i, "TypeError", KEY_README, cache, calls)
  ELSE IF ~FileExists(package)
    THEN TwoStep(i, [inv[i] EXCEPT !.pc = "rejected", !.packagePathname = package,
                                   !.backupPathname = genBackupPathname(package),
                                   !.error = [name |-> "ENOENT", message |-> package]],
                 files,
                 [cache EXCEPT ![package] = JSObject(SetProp(@.o, KEY_README, JSString(text)))],
                 Append(calls, FsCall("copyFileSync", package, i)))
  ELSE TwoStep(i, [inv[i] EXCEPT !.pc = "unlinking", !.packagePathname = package,
                                 !.backupPathname = genBackupPathname(package)],
               FilesWith(genBackupPathname(package), files[package]),
               [cache EXCEPT ![package] = JSObject(SetProp(@.o, KEY_README, JSString(text)))],
               Append(calls, FsCall("copyFileSync", package, i)))

\* processReadme from loadPackage on, for the documentation file at pathname
TwoLoadPackage(i, pathname, package, r, calls) ==
  IF ~r.ok THEN TwoReject(i, r.name, package, r.cache, calls \o r.calls)
  ELSE IF genBaseHref(r.cache[package]).threw
    THEN TwoReject(i, "TypeError", KEY_NAME, r.cache, calls \o r.calls)
  ELSE TwoUpdatePackage(i, package, r.cache,
                        fixLinks(files[AbsolutePath(pathname)],
                                 genBaseHref(r.cache[package]).baseHref),
                        calls \o r.calls)

\* processReadme( readmePathname ) is called: it runs up to its first await
CallProcessReadme(i) ==
  /\ pc = "two"
  /\ inv[i].pc = "start"
  /\ \E pathname \in {IF inv[i].readmePathname.t = "undefined" THEN DEFAULT_README_PATHNAME
                       ELSE inv[i].readmePathname.s} :
       IF pathname = << >>
         THEN TwoReject(i, "Error", <<"N", "o", " ", "p", "a", "t", "h", "n", "a", "m", "e",
                                      " ", "s", "p", "e", "c", "i", "f", "i", "e", "d">>,
                        requireCache, << >>)
       ELSE IF ~FileExists(pathname)
         THEN TwoReject(i, "Error", <<"F", "i", "l", "e", " ", "n", "o", "t", " ", "f", "o",
                                      "u", "n", "d", ":", " ">> \o pathname,
                        requireCache, <<FsCall("existsSync", AbsolutePath(pathname), i)>>)
       ELSE \E package \in {genPackagePathname(pathname)} :
              \E r \in {Require(package)} :
                TwoLoadPackage(i, pathname, package, r,
                               <<FsCall("existsSync", AbsolutePath(pathname), i),
                                 FsCall("readFileSync", AbsolutePath(pathname), i)>>)
  /\ UNCHANGED <<pc, fixVars, envVars, console>>
  /\ UNCHANGED <<baseHrefText, readmePathname, packagePathname, readmeText, packageLoaded,
                 backupPathname, result, error>>

\* The thread pool makes the unlink that invocation i has asked for
UnlinkDone(i) ==
  /\ pc = "two"
  /\ inv[i].pc = "unlinking"
  /\ IF FileExists(inv[i].packagePathname)
     THEN TwoStep(i, [inv[i] EXCEPT !.pc = "unlinked"], FilesWithout(inv[i].packagePathname),
                  requireCache, <<FsCall("unlink", inv[i].packagePathname, i)>>)
     ELSE TwoStep(i, [inv[i] EXCEPT !.pc = "unlinkFailed",
                                    !.error = [name |-> "ENOENT",
                                               message |-> inv[i].packagePathname]],
                  files, requireCache, <<FsCall("unlink", inv[i].packagePathname, i)>>)
  /\ UNCHANGED <<pc, fixVars, envVars, console>>
  /\ UNCHANGED <<baseHrefText, readmePathname, packagePathname, readmeText, packageLoaded,
                 backupPathname, result, error>>

\* Resume with a catch that processReadme does not have: an invocation whose
\* unlink was rejected deletes the backup file before it passes the rejection on
Resume_CleansUp(i) ==
  /\ pc = "two"
  /\ \/ /\ inv[i].pc = "unlinked"
        /\ TwoStep(i, [inv[i] EXCEPT !.pc = "resolved"],
                   FilesWith(inv[i].packagePathname,
                             writeFileJSON(requireCache[inv[i].packagePathname])),
                   requireCache, <<FsCall("writeFileSync", inv[i].packagePathname, i)>>)
     \/ /\ inv[i].pc = "unlinkFailed"
        /\ TwoStep(i, [inv[i] EXCEPT !.pc = "rejected"], FilesWithout(inv[i].backupPathname),
                   requireCache, << >>)
  /\ UNCHANGED <<pc, fixVars, envVars, console>>
  /\ UNCHANGED <<baseHrefText, readmePathname, packagePathname, readmeText, packageLoaded,
                 backupPathname, result, error>>

\* Invocation i resumes after its await: writeFileJSON( packagePathname,
\* packageObj ) and the two returns, or the rejection of the unlink passed on.
\* packageObj is the record of the module cache.
Resume(i) ==
  /\ pc = "two"
  /\ \/ /\ inv[i].pc = "unlinked"
        /\ TwoStep(i, [inv[i] EXCEPT !.pc = "resolved"],
                   FilesWith(inv[i].packagePathname,
                             writeFileJSON(requireCache[inv[i].packagePathname])),
                   requireCache, <<FsCall("writeFileSync", inv[i].packagePathname, i)>>)
     \/ /\ inv[i].pc = "unlinkFailed"
        /\ TwoStep(i, [inv[i] EXCEPT !.pc = "rejected"], files, requireCache, << >>)
  /\ UNCHANGED <<pc, fixVars, envVars, console>>
  /\ UNCHANGED <<baseHrefText, readmePathname, packagePathname, readmeText, packageLoaded,
                 backupPathname, result, error>>

\* The arguments of the two invocations: the documentation file of the
\* working directory named in three ways, and a file that does not exist
TwoReadmePathnames ==
  { JSUndefined,
    JSString(<<"R", "E", "A", "D", "M", "E", ".", "m", "d">>),
    JSString(cwd \o <<"/", "R", "E", "A", "D", "M", "E", ".", "m", "d">>),
    JSString(<<"n", "o", ".", "m", "d">>) }

InitTwo ==
  /\ pc = "two"
  /\ \E first \in TwoReadmePathnames, second \in TwoReadmePathnames :
       inv = [i \in Invocations |->
                Invocation("start", IF i = 1 THEN first ELSE second, << >>, << >>, NoError)]
  /\ \E text \in ReadmeTexts, manifest \in MainManifestTexts :
       files = [q \in {cwd \o <<"/", "R", "E", "A", "D", "M", "E", ".", "m", "d">>,
                       cwd \o <<"/">> \o PACKAGE_FILENAME} |->
                  IF q = cwd \o <<"/">> \o PACKAGE_FILENAME THEN manifest ELSE text]
  /\ readmePathname = JSUndefined
  /\ requireCache = << >>
  /\ rawReadmeText = << >>
  /\ baseHref = << >>
  /\ baseHrefText = << >>
  /\ tagsPreformatted = << >>
  /\ cookedContentPreformatted = << >>
  /\ tagsLinks = << >>
  /\ cookedContentLinks = << >>
  /\ cookedContent = << >>
  /\ packagePathname = << >>
  /\ readmeText = << >>
  /\ packageLoaded = JSUndefined
  /\ backupPathname = << >>
  /\ result = NoResult
  /\ error = NoError
  /\ platform = "linux"
  /\ pid = 4321
  /\ argv = << >>
  /\ filesAtStart = files
  /\ fsLog = << >>
  /\ console = << >>

NextTwo ==
  \E i \in Invocations :
    \/ CallProcessReadme(i)
    \/ UnlinkDone(i)
    \/ Resume(i)

SpecTwo == InitTwo /\ [][NextTwo]_vars

\* The positions in the log of the backup-copy, delete and write steps on the
\* manifest at the pathname
StepsOn(package) ==
  { k \in DOMAIN fsLog :
      /\ fsLog[k].op \in {"copyFileSync", "unlink", "writeFileSync"}
      /\ fsLog[k].path = package }

\* C15: within one process, the backup-copy, delete and write steps of two
\* processReadme invocations against the same manifest file never interleave:
\* no such step of one invocation is made between two of the other.
C15_StepsNeverInterleave ==
  \A a \in DOMAIN fsLog : \A b \in DOMAIN fsLog : \A c \in DOMAIN fsLog :
    ( /\ a < b
      /\ b < c
      /\ {a, b, c} \subseteq StepsOn(fsLog[a].path)
      /\ fsLog[a].by = fsLog[c].by )
    => fsLog[b].by = fsLog[a].by


(***************************************************************************)
(* The claims about a whole run of processReadme                           *)
(***************************************************************************)

\* The pathname of the documentation file of the run, absolute: the argument,
\* ./README.md when there is none
DocumentationPathname ==
  AbsolutePath(IF readmePathname.t = "undefined" THEN DEFAULT_README_PATHNAME
               ELSE readmePathname.s)

\* The run has failed reading the documentation file or loading the manifest
ReadOrLoadFailed ==
  /\ pc = "rejected"
  /\ error.name \in {"Error", "MODULE_NOT_FOUND", "SyntaxError"}

\* C16: in every run, successful or failed, the documentation file is never
\* written, deleted or moved; and when reading the documentation file or
\* loading the manifest fails, the manifest file on disk is left unchanged and
\* no backup file is created.
C16_DocumentationReadOnly ==
  /\ (readmePathname.t = "undefined" \/ readmePathname.s # << >>) =>
       /\ DocumentationPathname \in DOMAIN files <=> DocumentationPathname \in DOMAIN filesAtStart
       /\ DocumentationPathname \in DOMAIN files =>
            files[DocumentationPathname] = filesAtStart[DocumentationPathname]
       /\ \A k \in DOMAIN fsLog :
            fsLog[k].path = DocumentationPathname =>
              fsLog[k].op \in {"existsSync", "readFileSync"}
  /\ ReadOrLoadFailed =>
       /\ DOMAIN files = DOMAIN filesAtStart
       /\ \A q \in DOMAIN files : files[q] = filesAtStart[q]
       /\ \A q \in DOMAIN files : SubSeq(q, 1, 5) # <<"/", "t", "m", "p", "/">>
       /\ \A k \in DOMAIN fsLog :
            fsLog[k].op \notin {"copyFileSync", "unlink", "writeFileSync"}

\* The run has failed loading a manifest that is on disk and is no JSON text
C16_Witness ==
  /\ pc = "rejected"
  /\ error.name = "SyntaxError"
  /\ packagePathname \in DOMAIN files
  /\ DocumentationPathname \in DOMAIN files


\* The positions in the log of the calls of a function on a file
CallsOn(op, pathname) ==
  { k \in DOMAIN fsLog : fsLog[k].op = op /\ fsLog[k].path = pathname }

\* The manifest at the pathname holds the record given, its readme being the
\* documentation text transformed with the base address of the original manifest
ReadmeIsTransformed(written, original, text) ==
  /\ written.ok
  /\ original.ok
  /\ GetProp(written.value, KEY_README) =
       JSString(fixLinks(text, genBaseHref(original.value).baseHref))

\* The steps made so far were made in the order read the documentation, locate
\* the manifest, load the manifest, transform, update
StepsInOrder(project) ==
  /\ packagePathname # << >> => CallsOn("readFileSync", project.readme) # {}
  /\ \A k \in CallsOn("require", project.manifest) :
       /\ packagePathname = project.manifest
       /\ \E j \in CallsOn("readFileSync", project.readme) : j < k
  /\ baseHrefText # << >> => packagePathname \in DOMAIN requireCache
  /\ UpdatePackageCalled =>
       /\ pc \notin {"readFile", "genPackagePathname", "loadPackage", "genBaseHref",
                      "encodeTagsPreformatted", "encodeTagsLinks", "genFixedLink",
                      "decodeTagsLinks", "decodeTagsPreformatted", "fixed"}
       /\ baseHrefText # << >>
       /\ readmeText = cookedContent
  /\ \A k \in DOMAIN fsLog :
       fsLog[k].op \in {"copyFileSync", "unlink", "writeFileSync"} =>
         /\ UpdatePackageCalled
         /\ fsLog[k].path = project.manifest
         /\ \E j \in CallsOn("require", project.manifest) : j < k

\* C17: when processReadme( readmePathname ) succeeds, the manifest in the
\* directory of the documentation file, named package.json, has a readme field
\* equal to fixLinks( content of the documentation file, base address built
\* from that manifest ), and the result holds that manifest's pathname and the
\* backup pathname the delete step returned; the steps are made in the order
\* read documentation, locate manifest, load manifest, transform, update.
C17_ProcessReadme ==
  \A project \in Projects :
    project.readme = DocumentationPathname =>
      /\ StepsInOrder(project)
      /\ pc = "resolved" =>
           /\ project.manifest \in DOMAIN files
           /\ project.manifest \in DOMAIN filesAtStart
           /\ \A written \in {JSONparse(files[project.manifest])} :
                \A original \in {JSONparse(filesAtStart[project.manifest])} :
                  ReadmeIsTransformed(written, original, filesAtStart[project.readme])
           /\ result.settled
           /\ result.packagePathname = project.manifest
           /\ result.backupPackagePathname = backupPathname
           /\ backupPathname \in DOMAIN files
           /\ files[backupPathname] = filesAtStart[project.manifest]

\* processReadme has succeeded for a documentation file with links in it, in a
\* directory that is not the working directory
C17_Witness ==
  /\ pc = "resolved"
  /\ result.settled
  /\ DocumentationPathname \in DOMAIN filesAtStart
  /\ DocumentationPathname # cwd \o <<"/", "R", "E", "A", "D", "M", "E", ".", "m", "d">>
  /\ Includes(filesAtStart[DocumentationPathname], LINK_AB)
  /\ readmeText # filesAtStart[DocumentationPathname]


(***************************************************************************)
(* fixLinks of src/readme-fixer.js, statement by statement.  Its functions *)
(* have the names of those of src/unnamed/part_000; they are written here  *)
(* with the suffix Legacy.                                                 *)
(***************************************************************************)

\* The most turns of the loop of replaceAll that are followed after one turn
\* for each occurrence of the search text in the text given
MaxLoop == 2

RECURSIVE replaceAllLoop(_, _, _, _)
\* The do-while loop of replaceAll with turns more turns to follow: done is
\* FALSE when the text is still changing after them, the replacements having
\* made new occurrences of the search text
replaceAllLoop(strPrev, strSearch, strReplace, turns) ==
  LET strCurr == StringReplace(strPrev, strSearch, strReplace)
  IN  IF strPrev = strCurr THEN [done |-> TRUE, str |-> strCurr]
      ELSE IF turns = 0 THEN [done |-> FALSE, str |-> strCurr]
      ELSE replaceAllLoop(strCurr, strSearch, strReplace, turns - 1)

\* replaceAll( strRaw, strSearch, strReplace ): a single replacement, repeated
\* until the text stops changing
replaceAll(strRaw, strSearch, strReplace) ==
  replaceAllLoop(strRaw, strSearch, strReplace, CountOf(strRaw, strSearch, 1) + MaxLoop)

RECURSIVE encodeTagsLoopLegacy(_, _, _, _, _)
encodeTagsLoopLegacy(matchResult, tagPrefix, i, tags, cooked) ==
  IF i > Len(matchResult)
    THEN [done |-> TRUE, tags |-> tags, cookedContent |-> cooked]
  ELSE LET tag       == genTag(tagPrefix, i - 1)
           strSearch == matchResult[i]
           replaced  == replaceAll(cooked, strSearch, tag)
       IN  IF ~replaced.done
             THEN [done |-> FALSE, tags |-> tags, cookedContent |-> replaced.str]
           ELSE encodeTagsLoopLegacy(matchResult, tagPrefix, i + 1,
                                     Append(tags, [k |-> tag, v |-> strSearch]),
                                     replaced.str)

encodeTagsLegacy(rawContent, regex, tagPrefix) ==
  encodeTagsLoopLegacy(StringMatch(rawContent, regex), tagPrefix, 1, << >>, rawContent)

encodeTagsPreformattedLegacy(rawContent) ==
  encodeTagsLegacy(rawContent, RE_PREFORMATTED, PREFIX_PREF)

encodeTagsLinksLegacy(rawContent) == encodeTagsLegacy(rawContent, RE_LINKS, PREFIX_LINK)

RECURSIVE decodeTagsLoopLegacy(_, _, _)
decodeTagsLoopLegacy(cooked, tags, i) ==
  IF i > Len(tags) THEN [done |-> TRUE, str |-> cooked]
  ELSE LET replaced == replaceAll(cooked, tags[i].k, tags[i].v)
       IN  IF ~replaced.done THEN replaced
           ELSE decodeTagsLoopLegacy(replaced.str, tags, i + 1)

decodeTagsLegacy(rawContent, tags) == decodeTagsLoopLegacy(rawContent, tags, 1)

InitFixLinksLegacy ==
  /\ pc = "legacy.encodeTagsPreformatted"
  /\ rawReadmeText \in Texts
  /\ baseHref \in BaseHrefs
  /\ tagsPreformatted = << >>
  /\ cookedContentPreformatted = << >>
  /\ tagsLinks = << >>
  /\ cookedContentLinks = << >>
  /\ cookedContent = << >>
  /\ baseHrefText = << >>
  /\ readmePathname = JSUndefined
  /\ files = << >>
  /\ requireCache = << >>
  /\ packagePathname = << >>
  /\ readmeText = << >>
  /\ packageLoaded = JSUndefined
  /\ backupPathname = << >>
  /\ result = NoResult
  /\ error = NoError
  /\ platform = "linux"
  /\ pid = 4321
  /\ argv = << >>
  /\ filesAtStart = files
  /\ fsLog = << >>
  /\ inv = << >>
  /\ console = << >>

\* A call of replaceAll does not return: the run stays in its loop
LegacyLoops ==
  /\ pc' = "legacy.replaceAll"
  /\ UNCHANGED fixVars

LegacyEncodeTagsPreformatted ==
  /\ pc = "legacy.encodeTagsPreformatted"
  /\ \E r \in {encodeTagsPreformattedLegacy(rawReadmeText)} :
       IF r.done
       THEN /\ tagsPreformatted' = r.tags
            /\ cookedContentPreformatted' = r.cookedContent
            /\ pc' = "legacy.encodeTagsLinks"
            /\ UNCHANGED <<rawReadmeText, baseHref, tagsLinks, cookedContentLinks, cookedContent>>
       ELSE LegacyLoops
  /\ UNCHANGED <<procVars, envVars, fsLog, inv, console>>

LegacyEncodeTagsLinks ==
  /\ pc = "legacy.encodeTagsLinks"
  /\ \E r \in {encodeTagsLinksLegacy(cookedContentPreformatted)} :
       IF r.done
       THEN /\ tagsLinks' = r.tags
            /\ cookedContentLinks' = r.cookedContent
            /\ cookedContent' = r.cookedContent
            /\ pc' = "legacy.genFixedLink"
            /\ UNCHANGED <<rawReadmeText, baseHref, tagsPreformatted, cookedContentPreformatted>>
       ELSE LegacyLoops
  /\ UNCHANGED <<procVars, envVars, fsLog, inv, console>>

LegacyGenFixedLinks ==
  /\ pc = "legacy.genFixedLink"
  /\ tagsLinks' = fixTagsLinks(tagsLinks, baseHref)
  /\ pc' = "legacy.decodeTagsPreformatted"
  /\ UNCHANGED <<procVars, envVars, fsLog, inv, console>>
  /\ UNCHANGED <<rawReadmeText, baseHref, tagsPreformatted, cookedContentPreformatted,
                 cookedContentLinks, cookedContent>>

LegacyDecodeTagsPreformatted ==
  /\ pc = "legacy.decodeTagsPreformatted"
  /\ \E r \in {decodeTagsLegacy(cookedContent, tagsPreformatted)} :
       IF r.done
       THEN /\ cookedContent' = r.str
            /\ pc' = "legacy.decodeTagsLinks"
            /\ UNCHANGED <<rawReadmeText, baseHref, tagsPreformatted, cookedContentPreformatted,
                           tagsLinks, cookedContentLinks>>
       ELSE LegacyLoops
  /\ UNCHANGED <<procVars, envVars, fsLog, inv, console>>

LegacyDecodeTagsLinks ==
  /\ pc = "legacy.decodeTagsLinks"
  /\ \E r \in {decodeTagsLegacy(cookedContent, tagsLinks)} :
       IF r.done
       THEN /\ cookedContent' = r.str
            /\ pc' = "legacy.fixed"
            /\ UNCHANGED <<rawReadmeText, baseHref, tagsPreformatted, cookedContentPreformatted,
                           tagsLinks, cookedContentLinks>>
       ELSE LegacyLoops
  /\ UNCHANGED <<procVars, envVars, fsLog, inv, console>>

NextFixLinksLegacy ==
  \/ LegacyEncodeTagsPreformatted
  \/ LegacyEncodeTagsLinks
  \/ LegacyGenFixedLinks
  \/ LegacyDecodeTagsPreformatted
  \/ LegacyDecodeTagsLinks

SpecFixLinksLegacy == InitFixLinksLegacy /\ [][NextFixLinksLegacy]_vars

\* C18: for every input text and base address, decoding the LINK markers
\* before the PREF markers, as fixLinks of src/unnamed/part_000 does, and
\* decoding the PREF markers before the LINK markers, as fixLinks of
\* src/readme-fixer.js does, give the same output text.
C18_DecodeOrderEquivalent ==
  pc = "legacy.fixed" => cookedContent = fixLinks(rawReadmeText, baseHref)


(***************************************************************************)
(* The claims about the link pattern and about encodeTags                  *)
(***************************************************************************)

\* A link-like text whose target holds a close parenthesis
LINK_CLOSE_PAREN == <<"[", "a", "]", "(", "#", "b", "(", "c", ")", "d", ")">>

\* C19: a link-like substring whose target contains a literal close
\* parenthesis, such as [a](#b(c)d), is not matched by the link pattern:
\* no link tag holds a part of it, and fixLinks leaves it, and every part of
\* it, unchanged.
C19_CloseParenNotMatched ==
  Includes(rawReadmeText, LINK_CLOSE_PAREN) =>
    /\ PastLinksPass =>
         \A i \in DOMAIN tagsLinks : ~Includes(LINK_CLOSE_PAREN, tagsLinks[i].v)
    /\ pc = "fixed" => Includes(cookedContent, LINK_CLOSE_PAREN)


\* What encodeTags has returned for the input and the pattern: the values of
\* the tags are the matches of one scan of the input, in order; and where the
\* same text is matched for the tags i < j, i the first tag of that text, no
\* occurrence of the text is left in the masked text, the marker i stands in
\* it and the marker j does not
MaskedOnce(input, regex, tags, masked) ==
  /\ [i \in DOMAIN tags |-> tags[i].v] = StringMatch(input, regex)
  /\ \A i \in DOMAIN tags : \A j \in DOMAIN tags :
       (i < j /\ tags[i].v = tags[j].v /\ \A h \in 1..(i - 1) : tags[h].v # tags[i].v) =>
         /\ ~Includes(masked, tags[i].v)
         /\ Includes(masked, tags[i].k)
         /\ ~Includes(masked, tags[j].k)

\* C20: encodeTags finds its matches in one left-to-right scan of the
\* original input; for the i-th match it replaces every occurrence of the
\* matched text by marker i.  When the same text is matched at i < j, both
\* markers are recorded with that text as value, every occurrence in the
\* masked text carries marker i, and marker j does not appear in the masked
\* text.
C20_SameTextSameMarker ==
  /\ pc = "encodeTagsLinks" =>
       MaskedOnce(rawReadmeText, RE_PREFORMATTED, tagsPreformatted, cookedContentPreformatted)
  /\ pc = "genFixedLink" =>
       MaskedOnce(cookedContentPreformatted, RE_LINKS, tagsLinks, cookedContentLinks)



(***************************************************************************)
(* The claims about the failures of the steps of updatePackage             *)
(***************************************************************************)

\* The backup-copy, delete and write steps of updatePackage
UpdateSteps == <<"copyFileSync", "unlink", "writeFileSync">>

\* The step is the last call made and the run has ended rejected: the step
\* has failed
StepFailed(op) ==
  /\ pc = "rejected"
  /\ fsLog # << >>
  /\ fsLog[Len(fsLog)].op = op

\* The manifest is on disk as it was when the run started
ManifestAsAtStart ==
  /\ packagePathname \in DOMAIN files
  /\ packagePathname \in DOMAIN filesAtStart
  /\ files[packagePathname] = filesAtStart[packagePathname]

\* The backup file holds what the manifest held when the run started
BackupRemains ==
  /\ backupPathname \in DOMAIN files
  /\ packagePathname \in DOMAIN filesAtStart
  /\ files[backupPathname] = filesAtStart[packagePathname]

\* C21: updatePackage performs backup copy, unlink and write strictly in that
\* order, each at most once; a failure of a step aborts all later steps and
\* rejects the promise of the caller, with no retry and no rollback: if the
\* copy fails the manifest is neither deleted nor rewritten; if the unlink
\* fails nothing is written; if the write fails after a successful unlink the
\* manifest stays absent while the backup remains.
C21_FailureAbortsLaterSteps ==
  UpdatePackageCalled =>
    /\ \A k \in 1..3 : Cardinality(CallsOf(UpdateSteps[k])) <= 1
    /\ \A k \in 2..3 : \A later \in CallsOf(UpdateSteps[k]) :
         \E earlier \in CallsOf(UpdateSteps[k - 1]) : earlier < later
    /\ (CallsOf("copyFileSync") # {} /\ CallsOf("unlink") = {}) => pc \in {"unlink", "rejected"}
    /\ (CallsOf("unlink") # {} /\ CallsOf("writeFileSync") = {}) =>
         pc \in {"writeFileJSON", "rejected"}
    /\ CallsOf("writeFileSync") # {} => pc \in {"return", "resolved", "rejected"}
    /\ pc = "rejected" => (error.name # "none" /\ ~result.settled)
    /\ StepFailed("copyFileSync") =>
         /\ CallsOf("unlink") = {}
         /\ CallsOf("writeFileSync") = {}
         /\ ManifestAsAtStart
    /\ StepFailed("unlink") =>
         /\ CallsOf("writeFileSync") = {}
         /\ ManifestAsAtStart
         /\ BackupRemains
    /\ StepFailed("writeFileSync") =>
         /\ ~FileExists(packagePathname)
         /\ BackupRemains

\* The write has failed after the manifest was copied and unlinked
C21_Witness ==
  /\ StepFailed("writeFileSync")
  /\ error.name = "EACCES"
  /\ CallsOf("copyFileSync") # {}
  /\ CallsOf("unlink") # {}
  /\ packagePathname \in DOMAIN filesAtStart
  /\ packagePathname \notin DOMAIN files



(***************************************************************************)
(* The claim about the termination of fixLinks                             *)
(***************************************************************************)

\* C22: for every input text and base address, fixLinks terminates and
\* returns a string: every call of the replaceAll helper of
\* src/readme-fixer.js returns, so that no run of fixLinks stays in the loop
\* of replaceAll.  A run of fixLinks is five calls made one after the other;
\* it does not terminate exactly when one of them does not return.
C22_ReplaceAllTerminates == pc # "legacy.replaceAll"



(***************************************************************************)
(* fixLinks for texts of many links, each one different from the others    *)
(***************************************************************************)

\* The most links of a text of few links; the number of links of the text of
\* many links, which gives the link pass markers of more than two digits
MaxFewLinks  == 20
MaxManyLinks == 101

\* The link number i: its target is the number, after the base address given
NumberedLink(i, base) ==
  <<"[", "a", "]", "(">> \o base \o <<"#">> \o NumberToString(i) \o <<")">>

RECURSIVE NumberedLinks(_, _)
\* The text of the links number 0 to n - 1
NumberedLinks(n, base) ==
  IF n = 0 THEN << >> ELSE NumberedLinks(n - 1, base) \o NumberedLink(n - 1, base)

ManyLinksTexts == { NumberedLinks(n, << >>) : n \in (0..MaxFewLinks) \cup {MaxManyLinks} }

InitManyLinks ==
  /\ pc = "encodeTagsPreformatted"
  /\ rawReadmeText \in ManyLinksTexts
  /\ baseHref \in BaseHrefs
  /\ tagsPreformatted = << >>
  /\ cookedContentPreformatted = << >>
  /\ tagsLinks = << >>
  /\ cookedContentLinks = << >>
  /\ cookedContent = << >>
  /\ baseHrefText = << >>
  /\ readmePathname = JSUndefined
  /\ files = << >>
  /\ requireCache = << >>
  /\ packagePathname = << >>
  /\ readmeText = << >>
  /\ packageLoaded = JSUndefined
  /\ backupPathname = << >>
  /\ result = NoResult
  /\ error = NoError
  /\ platform = "linux"
  /\ pid = 4321
  /\ argv = << >>
  /\ filesAtStart = files
  /\ fsLog = << >>
  /\ inv = << >>
  /\ console = << >>

SpecManyLinks == InitManyLinks /\ [][NextFixLinks]_vars

\* C23: within one masking pass, for any number of matches (including more
\* than 99), no marker is equal to or a prefix of another marker of that pass,
\* so that substituting one marker during decodeTags never alters an
\* occurrence of another marker: the text returned is the text given with
\* each link made absolute.
C23_MarkersPrefixFree ==
  /\ PastLinksPass =>
       \A i \in DOMAIN tagsLinks : \A j \in DOMAIN tagsLinks :
         i # j => ~IsAt(tagsLinks[j].k, tagsLinks[i].k, 1)
  /\ pc = "fixed" => cookedContent = NumberedLinks(Len(tagsLinks), baseHref)



(***************************************************************************)
(* Two invocations of processReadme in one process, one made after the     *)
(* other has settled, the manifest edited on disk between them             *)
(***************************************************************************)

KEY_VERSION    == <<"v", "e", "r", "s", "i", "o", "n">>
EDITED_VERSION == JSString(<<"2">>)

\* The manifest text with the version field set by an edit
EditedManifest(record) ==
  JSONstringify(JSObject(SetProp(record.o, KEY_VERSION, EDITED_VERSION)), 2)

\* Invocation i has settled and the other one is not called yet: the manifest
\* of the working directory is edited on disk by someone else (by 0), who
\* sets its version field
EditManifest(i) ==
  /\ pc = "two"
  /\ inv[i].pc \in {"resolved", "rejected"}
  /\ \A j \in Invocations \ {i} : inv[j].pc = "start"
  /\ \A k \in DOMAIN fsLog : fsLog[k].op # "edit"
  /\ \E package \in {cwd \o <<"/">> \o PACKAGE_FILENAME} :
       /\ FileExists(package)
       /\ \E parsed \in {JSONparse(files[package])} :
            /\ parsed.ok
            /\ parsed.value.t = "object"
            /\ files' = FilesWith(package, EditedManifest(parsed.value))
       /\ fsLog' = Append(fsLog, FsCall("edit", package, 0))
  /\ UNCHANGED <<pc, fixVars, envVars, inv, console>>
  /\ UNCHANGED <<baseHrefText, readmePathname, requireCache, packagePathname, readmeText,
                 packageLoaded, backupPathname, result, error>>

NextEdited ==
  \/ NextTwo
  \/ \E i \in Invocations : EditManifest(i)

SpecEdited == InitTwo /\ [][NextEdited]_vars

\* The manifest was edited on disk before invocation j was called, and
\* invocation j has succeeded
SucceededAfterEdit(j) ==
  /\ inv[j].pc = "resolved"
  /\ \E k \in DOMAIN fsLog : \E h \in DOMAIN fsLog :
       /\ fsLog[k].op = "edit"
       /\ k < h
       /\ fsLog[h].by = j

\* C24: each invocation of processReadme writes a manifest derived from the
\* content the manifest file has on disk at the time of that invocation, no
\* record loaded or mutated by an earlier invocation being reused: a field
\* changed on disk between two invocations keeps its new value after the
\* second one.
C24_ManifestOfDisk ==
  \A j \in Invocations :
    SucceededAfterEdit(j) =>
      /\ inv[j].packagePathname \in DOMAIN files
      /\ \A written \in {JSONparse(files[inv[j].packagePathname])} :
           /\ written.ok
           /\ GetProp(written.value, KEY_VERSION) = EDITED_VERSION



(***************************************************************************)
(* The backups of two manifests made in one process: deleteFile up to its  *)
(* copy, called for one manifest and then for another                      *)
(***************************************************************************)

\* The directories of the two manifests
ManifestDirectories ==
  { cwd,
    cwd \o <<"/", "a", "/", "b">>,
    cwd \o <<"/", "a", ".", "b">>,
    cwd \o <<"/", "a", "-", "b">>,
    cwd \o <<"/", "c">> }

\* The pathnames genPackagePathname returns for them
ManifestPathnames == { genPackagePathname(d \o <<"/", "R", ".", "m", "d">>) : d \in ManifestDirectories }

\* The content of the manifest at the pathname: its name is the pathname
ManifestNamed(pathname) == JSONstringify(JSObject(<<Field(KEY_NAME, JSString(pathname))>>), 2)

InitBackups ==
  /\ pc = "deleteFile"
  /\ \E first \in ManifestPathnames, second \in ManifestPathnames :
       /\ first # second
       /\ inv = [i \in Invocations |->
                   Invocation("start", JSUndefined, IF i = 1 THEN first ELSE second,
                              << >>, NoError)]
       /\ files = [q \in {first, second} |-> ManifestNamed(q)]
  /\ readmePathname = JSUndefined
  /\ requireCache = << >>
  /\ rawReadmeText = << >>
  /\ baseHref = << >>
  /\ baseHrefText = << >>
  /\ tagsPreformatted = << >>
  /\ cookedContentPreformatted = << >>
  /\ tagsLinks = << >>
  /\ cookedContentLinks = << >>
  /\ cookedContent = << >>
  /\ packagePathname = << >>
  /\ readmeText = << >>
  /\ packageLoaded = JSUndefined
  /\ backupPathname = << >>
  /\ result = NoResult
  /\ error = NoError
  /\ platform = "linux"
  /\ pid \in ProcessIds
  /\ argv = << >>
  /\ filesAtStart = files
  /\ fsLog = << >>
  /\ console = << >>

\* deleteFile( pathname ) of invocation i: const backupPathname =
\* genBackupPathname( pathname ); fs.copyFileSync( pathname, backupPathname )
DeleteFileCopy(i) ==
  /\ pc = "deleteFile"
  /\ inv[i].pc = "start"
  /\ \E backup \in {genBackupPathname(inv[i].packagePathname)} :
       /\ inv' = [inv EXCEPT ![i] = [@ EXCEPT !.pc = "copied", !.backupPathname = backup]]
       /\ files' = FilesWith(backup, files[inv[i].packagePathname])
  /\ fsLog' = Append(fsLog, FsCall("copyFileSync", inv[i].packagePathname, i))
  /\ UNCHANGED <<pc, fixVars, envVars, console>>
  /\ UNCHANGED <<baseHrefText, readmePathname, requireCache, packagePathname, readmeText,
                 packageLoaded, backupPathname, result, error>>

NextBackups == \E i \in Invocations : DeleteFileCopy(i)

SpecBackups == InitBackups /\ [][NextBackups]_vars

\* C25: within one process, genBackupPathname returns distinct backup
\* pathnames for distinct manifest pathnames, so the backups of two different
\* manifest files never overwrite each other: each backup holds the content
\* of the manifest it was made of.
C25_BackupsDistinct ==
  \A i \in Invocations : \A j \in Invocations :
    ( /\ inv[i].pc = "copied"
      /\ inv[j].pc = "copied"
      /\ inv[i].packagePathname # inv[j].packagePathname )
    => /\ inv[i].backupPathname # inv[j].backupPathname
       /\ files[inv[i].backupPathname] = filesAtStart[inv[i].packagePathname]



(***************************************************************************)
(* The claim about the errors of genBaseHref                               *)
(***************************************************************************)

UNDEFINED_TEXT == <<"u", "n", "d", "e", "f", "i", "n", "e", "d">>

\* The run has ended with the TypeError of packageContent.name
GenBaseHrefThrew ==
  /\ pc = "rejected"
  /\ error = [name |-> "TypeError", message |-> KEY_NAME]

\* C26: genBaseHref raises no error for any manifest value; for a manifest
\* record without a name field it returns a base address in which the
\* literal text undefined stands in place of the package name.
C26_GenBaseHrefNoError ==
  /\ ~GenBaseHrefThrew
  /\ (PastGenBaseHref /\ GetProp(Manifest, KEY_NAME).t = "undefined") =>
       baseHref = RegistryOfManifest \o WEB_DETAIL_PATH \o UNDEFINED_TEXT \o <<"?">>



(***************************************************************************)
(* fixLinks of src/unnamed/part_000 and fixLinks of src/readme-fixer.js,   *)
(* each run on every text                                                  *)
(***************************************************************************)

InitBothFixLinks == InitFixLinks \/ InitFixLinksLegacy

NextBothFixLinks == NextFixLinks \/ NextFixLinksLegacy

SpecBothFixLinks == InitBothFixLinks /\ [][NextBothFixLinks]_vars

\* C27: for every input text that contains no occurrence of the characters
\* !TAG!, the output of fixLinks contains no occurrence of !TAG!: every marker
\* introduced by either masking pass is substituted back before the text is
\* returned, in both src/readme-fixer.js and src/unnamed/part_000.
C27_NoMarkerLeft ==
  (pc \in {"fixed", "legacy.fixed"} /\ ~Includes(rawReadmeText, TAG_MARK)) =>
    ~Includes(cookedContent, TAG_MARK)



(***************************************************************************)
(* fixLinks applied to the text it has returned, with a base address that  *)
(* genBaseHref has built                                                   *)
(***************************************************************************)

\* The base addresses genBaseHref builds for the manifests that have a name
\* without "]" and "(", and the default registry or a registry that does not
\* begin with "#"
ManifestBaseHrefs ==
  { genBaseHref(JSObject(n \o c)).baseHref :
      n \in ManifestNames \ {<< >>},
      c \in { << >>,
              <<Field(KEY_PUBLISHCONFIG,
                      JSObject(<<Field(KEY_REGISTRY, JSString(<<"h", ":", "/", "/", "r">>))>>))>> } }

InitFixLinksTwice ==
  /\ pc = "encodeTagsPreformatted"
  /\ rawReadmeText \in Texts
  /\ baseHref \in ManifestBaseHrefs
  /\ tagsPreformatted = << >>
  /\ cookedContentPreformatted = << >>
  /\ tagsLinks = << >>
  /\ cookedContentLinks = << >>
  /\ cookedContent = << >>
  /\ baseHrefText = << >>
  /\ readmePathname = JSUndefined
  /\ files = << >>
  /\ requireCache = << >>
  /\ packagePathname = << >>
  /\ readmeText = << >>
  /\ packageLoaded = JSUndefined
  /\ backupPathname = << >>
  /\ result = NoResult
  /\ error = NoError
  /\ platform = "linux"
  /\ pid = 4321
  /\ argv = << >>
  /\ filesAtStart = files
  /\ fsLog = << >>
  /\ inv = << >>
  /\ console = << >>

\* fixLinks is called again, with the text it has returned and the same base
\* address
FixLinksAgain ==
  /\ pc = "fixed"
  /\ readmeText' = fixLinks(cookedContent, baseHref)
  /\ pc' = "fixed.again"
  /\ UNCHANGED fixVars
  /\ UNCHANGED <<baseHrefText, readmePathname, files, requireCache, packagePathname,
                 packageLoaded, backupPathname, result, error>>
  /\ UNCHANGED <<envVars, fsLog, inv, console>>

NextFixLinksTwice == NextFixLinks \/ FixLinksAgain

SpecFixLinksTwice == InitFixLinksTwice /\ [][NextFixLinksTwice]_vars

\* C28: fixLinks is idempotent for a base address built by genBaseHref from a
\* non-empty registry that does not begin with "#" and a package name without
\* "]" or "(": fixLinks( fixLinks( text, base ), base ) equals
\* fixLinks( text, base ) for every text.
C28_Idempotent == pc = "fixed.again" => readmeText = cookedContent



(***************************************************************************)
(* Two invocations of processReadme that overlap on one manifest           *)
(***************************************************************************)

\* The positions in the log of the calls of the operation by invocation i on
\* the file at the pathname
CallsOfBy(op, pathname, i) ==
  { k \in DOMAIN fsLog : fsLog[k].op = op /\ fsLog[k].path = pathname /\ fsLog[k].by = i }

\* Both invocations have come to the backup copy of the manifest at the
\* pathname, and the later of the two has come to it before the earlier one
\* has written the manifest: the later one was called while the earlier one
\* was at its await
OverlapOn(package) ==
  \E i \in Invocations, j \in Invocations :
    /\ i # j
    /\ \E a \in CallsOfBy("copyFileSync", package, i) :
         \E b \in CallsOfBy("copyFileSync", package, j) :
           /\ a < b
           /\ \A w \in CallsOfBy("writeFileSync", package, i) : b < w

\* Both invocations have settled
BothSettled == \A i \in Invocations : inv[i].pc \in {"resolved", "rejected"}

\* C29: for every interleaving of two processReadme invocations that overlap
\* within one process on the same manifest, with no file-system failure other
\* than those the overlap causes, once both invocations have settled the
\* manifest file exists on disk with the transformed readme, and the backup
\* file holds the manifest's original content.
C29_OverlapLeavesManifest ==
  \A package \in DOMAIN filesAtStart :
    (BothSettled /\ OverlapOn(package)) =>
      /\ package \in DOMAIN files
      /\ \A written \in {JSONparse(files[package])} :
           \A original \in {JSONparse(filesAtStart[package])} :
             ReadmeIsTransformed(written, original,
                                 filesAtStart[cwd \o <<"/", "R", "E", "A", "D", "M", "E", ".", "m", "d">>])
      /\ \A i \in Invocations :
           /\ inv[i].packagePathname = package
           /\ inv[i].backupPathname = genBackupPathname(package)
           /\ inv[i].backupPathname \in DOMAIN files
           /\ files[inv[i].backupPathname] = filesAtStart[package]

\* Two invocations have overlapped on the manifest of a documentation file
\* with links, the second has found the manifest deleted at its unlink and
\* was rejected, the first has succeeded
C29_Witness ==
  /\ BothSettled
  /\ OverlapOn(cwd \o <<"/">> \o PACKAGE_FILENAME)
  /\ inv[1].pc = "resolved"
  /\ inv[2].pc = "rejected"
  /\ inv[2].error.name = "ENOENT"
  /\ CallsOfBy("unlink", cwd \o <<"/">> \o PACKAGE_FILENAME, 2) # {}
  /\ Includes(filesAtStart[cwd \o <<"/", "R", "E", "A", "D", "M", "E", ".", "m", "d">>], LINK_AB)

=============================================================================
